---- MODULE Spec2Model ----
(***************************************************************************)
(* Model of the tweet collection engine of twitter_crawler.py:             *)
(*   - parse_tweet_time_to_timestamp, the timestamp normaliser;            *)
(*   - extract_tweet_data, the per-item field extractor;                   *)
(*   - scroll_and_collect_tweets, the collection loop with its dedup set,  *)
(*     window cutoff policy and stagnation / round accounting.             *)
(* Strings are tuples of one-character strings, instants are whole epoch   *)
(* seconds (UTC).                                                          *)
(***************************************************************************)
EXTENDS Integers, Sequences, FiniteSets, TLC

----------------------------------------------------------------------------
(* String helpers: the str methods and operators the code uses.            *)

\* `c in s` for a one-character c.
Contains(s, c) == \E i \in DOMAIN s : s[i] = c

\* `sub in s` for a substring.
ContainsSub(s, sub) ==
    \E i \in 1..(Len(s) - Len(sub) + 1) : SubSeq(s, i, i + Len(sub) - 1) = sub

LowerChar(c) ==
    CASE c = "T" -> "t"
      [] c = "Z" -> "z"
      [] c = "H" -> "h"
      [] c = "D" -> "d"
      [] c = "W" -> "w"
      [] c = "M" -> "m"
      [] c = "S" -> "s"
      [] c = "J" -> "j"
      [] c = "L" -> "l"
      [] c = "X" -> "x"
      [] OTHER   -> c

MinOf(S) == CHOOSE m \in S : \A x \in S : m <= x
MaxOf(S) == CHOOSE m \in S : \A x \in S : m >= x

\* str.strip()
Strip(s) ==
    LET inked == {i \in DOMAIN s : s[i] \notin {" ", "\n"}}
    IN  IF inked = {} THEN <<>> ELSE SubSeq(s, MinOf(inked), MaxOf(inked))

RECURSIVE SplitFrom(_, _, _, _)
\* The parts of s from the part that starts at `start`, scanning from i.
SplitFrom(s, sep, i, start) ==
    IF i + Len(sep) - 1 > Len(s) THEN <<SubSeq(s, start, Len(s))>>
    ELSE IF SubSeq(s, i, i + Len(sep) - 1) = sep
         THEN <<SubSeq(s, start, i - 1)>> \o SplitFrom(s, sep, i + Len(sep), i + Len(sep))
         ELSE SplitFrom(s, sep, i + 1, start)

\* str.split(sep) for a non-empty separator.
Split(s, sep) == SplitFrom(s, sep, 1, 1)

\* str.lower()
Lower(s) == [i \in DOMAIN s |-> LowerChar(s[i])]

RECURSIVE ReplaceFrom(_, _, _, _)
\* The characters of s from position i on, every c replaced.
ReplaceFrom(s, i, c, by) ==
    IF i > Len(s) THEN <<>>
    ELSE (IF s[i] = c THEN by ELSE <<s[i]>>) \o ReplaceFrom(s, i + 1, c, by)

\* str.replace(c, by) for a one-character c: every occurrence is replaced.
Replace(s, c, by) == ReplaceFrom(s, 1, c, by)

Digits == {"0", "1", "2", "3", "4", "5", "6", "7", "8", "9"}

DigitVal(c) ==
    CASE c = "0" -> 0 [] c = "1" -> 1 [] c = "2" -> 2 [] c = "3" -> 3
      [] c = "4" -> 4 [] c = "5" -> 5 [] c = "6" -> 6 [] c = "7" -> 7
      [] c = "8" -> 8 [] c = "9" -> 9

IsDigits(s) == s # <<>> /\ \A i \in DOMAIN s : s[i] \in Digits

RECURSIVE DecValUpTo(_, _)
\* The value of the first n digits of s.
DecValUpTo(s, n) == IF n = 0 THEN 0 ELSE 10 * DecValUpTo(s, n - 1) + DigitVal(s[n])

DecVal(s) == DecValUpTo(s, Len(s))

\* The outcome of a call that may raise: ok = FALSE stands for the exception.
Ok(v)  == [ok |-> TRUE, val |-> v]
Raised == [ok |-> FALSE, val |-> 0]

\* int(s) on a decimal string; raises ValueError on anything else.
int(s) == IF IsDigits(s) THEN Ok(DecVal(s)) ELSE Raised

----------------------------------------------------------------------------
(* datetime.fromisoformat(...).timestamp() for the shapes                  *)
(*   YYYY-MM-DD<sep>HH:MM:SS  and  YYYY-MM-DD<sep>HH:MM:SS(+|-)HH:MM ;     *)
(* every other string raises ValueError.                                   *)

IsLeap(y) == (y % 4 = 0 /\ y % 100 # 0) \/ y % 400 = 0

DaysInMonth(y, m) ==
    IF m = 2 THEN (IF IsLeap(y) THEN 29 ELSE 28)
    ELSE IF m \in {4, 6, 9, 11} THEN 30 ELSE 31

\* Days from 1970-01-01 to the civil date y-m-d (proleptic Gregorian).
DaysFromCivil(y, m, d) ==
    LET yy  == IF m <= 2 THEN y - 1 ELSE y
        era == yy \div 400
        yoe == yy - era * 400
        mp  == IF m > 2 THEN m - 3 ELSE m + 9
        doy == (153 * mp + 2) \div 5 + d - 1
        doe == yoe * 365 + yoe \div 4 - yoe \div 100 + doy
    IN  era * 146097 + doe - 719468

\* A value without an offset is naive; timestamp() reads it in the host zone,
\* taken to be UTC here.
fromisoformat_timestamp(s) ==
    LET n == Len(s) IN
    IF ~(n = 19 \/ n = 25) THEN Raised
    ELSE
    LET Y  == SubSeq(s, 1, 4)
        Mo == SubSeq(s, 6, 7)
        D  == SubSeq(s, 9, 10)
        H  == SubSeq(s, 12, 13)
        Mi == SubSeq(s, 15, 16)
        S  == SubSeq(s, 18, 19)
        shape == /\ s[5] = "-" /\ s[8] = "-" /\ s[14] = ":" /\ s[17] = ":"
                 /\ IsDigits(Y) /\ IsDigits(Mo) /\ IsDigits(D)
                 /\ IsDigits(H) /\ IsDigits(Mi) /\ IsDigits(S)
        tzshape == n = 19 \/ (/\ s[20] \in {"+", "-"} /\ s[23] = ":"
                              /\ IsDigits(SubSeq(s, 21, 22))
                              /\ IsDigits(SubSeq(s, 24, 25)))
    IN
    IF ~(shape /\ tzshape) THEN Raised
    ELSE
    LET y   == DecVal(Y)
        mo  == DecVal(Mo)
        d   == DecVal(D)
        h   == DecVal(H)
        mi  == DecVal(Mi)
        sec == DecVal(S)
        tzh == IF n = 25 THEN DecVal(SubSeq(s, 21, 22)) ELSE 0
        tzm == IF n = 25 THEN DecVal(SubSeq(s, 24, 25)) ELSE 0
        off == IF n = 19 THEN 0
               ELSE (IF s[20] = "-" THEN -1 ELSE 1) * (tzh * 3600 + tzm * 60)
        valid == /\ y >= 1 /\ mo \in 1..12 /\ d >= 1 /\ d <= DaysInMonth(y, mo)
                 /\ h <= 23 /\ mi <= 59 /\ sec <= 59 /\ tzh <= 23 /\ tzm <= 59
    IN
    IF ~valid THEN Raised
    ELSE Ok(DaysFromCivil(y, mo, d) * 86400 + h * 3600 + mi * 60 + sec - off)

----------------------------------------------------------------------------
(* re.findall(r'\\d+', s): the raw pattern is a literal backslash followed *)
(* by one or more letters d.                                               *)

RECURSIVE RunOfD(_, _)
\* Index of the last d of the run of d's that starts at position i.
RunOfD(s, i) == IF i + 1 <= Len(s) /\ s[i + 1] = "d" THEN RunOfD(s, i + 1) ELSE i

RECURSIVE re_findall_from(_, _)
re_findall_from(s, i) ==
    IF i > Len(s) THEN <<>>
    ELSE IF s[i] = "\\" /\ i + 1 <= Len(s) /\ s[i + 1] = "d"
         THEN LET e == RunOfD(s, i + 1)
              IN  <<SubSeq(s, i, e)>> \o re_findall_from(s, e + 1)
         ELSE re_findall_from(s, i + 1)

re_findall(s) == re_findall_from(s, 1)

----------------------------------------------------------------------------
(* parse_tweet_time_to_timestamp(time_str), with time.time() = now.        *)
(* The result 0 is the code's "absent".                                    *)

\* The ISO branch: Ok(instant) when it returns, Raised when it falls through.
iso_branch(time_str) ==
    IF Contains(time_str, "T") /\ (Contains(time_str, "Z") \/ Contains(time_str, "+"))
    THEN CHOOSE outcome \in
             {fromisoformat_timestamp(replaced) :
                 replaced \in {Replace(time_str, "Z", <<"+", "0", "0", ":", "0", "0">>)}} : TRUE
    ELSE Raised

seconds_ago(low, num) ==
    IF Contains(low, "s") THEN num
    ELSE IF Contains(low, "m") /\ ~ContainsSub(low, <<"m", "o", "n", "t", "h">>) THEN num * 60
    ELSE IF Contains(low, "h") THEN num * 3600
    ELSE IF Contains(low, "d") THEN num * 86400
    ELSE IF Contains(low, "w") THEN num * 604800
    ELSE 0

\* The relative branch and the final `return 0`, as an outcome: Raised when
\* int() raises inside it.
relative_branch_outcome(time_str, now) ==
    LET low     == Lower(time_str)
        numbers == re_findall(time_str)
    IN
    IF (\E u \in {"s", "m", "h", "d", "w"} : Contains(low, u)) /\ numbers # <<>>
    THEN LET num == int(numbers[1])
         IN  IF num.ok THEN Ok(now - seconds_ago(low, num.val)) ELSE Raised
    ELSE Ok(0)

\* The relative branch and the final `return 0`; an exception raised by
\* int() is caught by the outer handler, which returns 0.
relative_branch(time_str, now) ==
    LET o == relative_branch_outcome(time_str, now) IN IF o.ok THEN o.val ELSE 0

\* The body of the outer try: the inner handler has swallowed a failure of
\* fromisoformat, a failure of the relative branch is still in flight.
parse_try_body(time_str, now) ==
    LET iso == iso_branch(time_str)
    IN  IF iso.ok THEN iso ELSE relative_branch_outcome(time_str, now)

\* The outer handler removed: the exception leaves the function.
outer_handler_mut(outcome) == outcome

\* `except Exception as e: return 0`
outer_handler(outcome) == IF outcome.ok THEN outcome ELSE Ok(0)

\* The whole call, as an outcome: Raised if an exception leaves the function.
parse_call(time_str, now) ==
    IF time_str = <<>> THEN Ok(0)
    ELSE outer_handler(parse_try_body(time_str, now))

\* The value returned.
parse_tweet_time_to_timestamp(time_str, now) == parse_call(time_str, now).val

----------------------------------------------------------------------------
(* Program constants.                                                      *)

ConfirmThreshold   == 10      \* `len(tweets_data) >= 10`: stop on an old tweet
BootstrapThreshold == 5       \* `len(tweets_data) < 5`: keep an undated tweet
FewTweets          == 5       \* `len(tweets_data) < 5`: too few tweets
StagnationLimit    == 5       \* `no_new_tweets_count >= 5`
ScrollLimit        == 3000    \* `scroll_attempts < 3000`
HardScrollLimit    == 5000    \* `scroll_attempts >= 5000`
DefaultMaxTweets   == 3000    \* crawl_twitter_account passes max_tweets=3000
DefaultDaysBack    == 7       \* main passes days_back=7
SecondsPerDay      == 86400   \* timedelta(days=days_back)

(* Bounds of the model.                                                    *)

FeedLen        == 12     \* items in the feed of one account
PageSize       == 4      \* items rendered at once
MaxRounds      == 9      \* rounds explored; stands in for ScrollLimit
SmallMaxTweets == 3      \* a small max_tweets argument
MaxFaults      == 1      \* exceptions raised by the browser or the console

\* The round limit the model runs with: the code's limit, clipped to the bound.
RoundLimit == IF ScrollLimit < MaxRounds THEN ScrollLimit ELSE MaxRounds

Min(a, b) == IF a < b THEN a ELSE b

----------------------------------------------------------------------------
(* The feed source.  A raw item is what the browser renders for one tweet: *)
(*   html     its innerHTML (a number names the markup),                   *)
(*   datetime the datetime attribute of its <time> element (<<>> if none), *)
(*   label    the visible time label,                                      *)
(*   pinned   whether one of the pinned indicators is found in it.         *)

StrNow    == <<"2","0","2","4","-","0","1","-","2","0","T","0","0",":","0","0",":","0","0","Z">>
StrRecent == <<"2","0","2","4","-","0","1","-","1","8","T","1","2",":","0","0",":","0","0","Z">>
StrEdge   == <<"2","0","2","4","-","0","1","-","1","3","T","0","0",":","0","0",":","0","0","Z">>
StrOld    == <<"2","0","2","4","-","0","1","-","0","5","T","0","8",":","3","0",":","0","0","+","0","2",":","0","0">>
StrRel    == <<"6", "h">>
StrBogus  == <<"J", "a", "n", " ", "5">>

\* The clock at the start of the session (time.time(), datetime.now()).
SessionNow == fromisoformat_timestamp(Replace(StrNow, "Z", <<"+", "0", "0", ":", "0", "0">>)).val

\* recent, edge (exactly seven days old), old: an ISO datetime attribute;
\* rel, bogus: no <time> element, only a label; none: no time at all.
TimeKinds == {"recent", "edge", "old", "rel", "bogus", "none"}

RawDatetime(kind) ==
    CASE kind = "recent" -> StrRecent
      [] kind = "edge"   -> StrEdge
      [] kind = "old"    -> StrOld
      [] OTHER           -> <<>>

RawLabel(kind) ==
    CASE kind = "recent" -> <<"2", "d">>
      [] kind = "edge"   -> <<"J", "a", "n", " ", "1", "3">>
      [] kind = "old"    -> StrBogus
      [] kind = "rel"    -> StrRel
      [] kind = "bogus"  -> StrBogus
      [] OTHER           -> <<>>

RawItem(h, kind, pin) ==
    [html |-> h, datetime |-> RawDatetime(kind), label |-> RawLabel(kind), pinned |-> pin]

\* One account's feed: items of one base kind with distinct markup, and at
\* most one special item at position k.  The special item is either of
\* another kind, or pinned, or (kind "dup") a byte-identical copy of the item
\* before it.
Special == [kind : TimeKinds \cup {"dup"}, pinned : {FALSE}]
           \cup [kind : {"old", "bogus"}, pinned : {TRUE}]

PlainFeed(base) == [k \in 1..FeedLen |-> RawItem(k, base, FALSE)]

FeedWith(base, k, sp) ==
    [j \in 1..FeedLen |->
        IF j # k THEN RawItem(j, base, FALSE)
        ELSE IF sp.kind = "dup"
             THEN (IF k = 1 THEN RawItem(1, base, FALSE) ELSE RawItem(k - 1, base, FALSE))
             ELSE RawItem(k, sp.kind, sp.pinned)]

BaseKinds == {"recent", "bogus"}

\* The feeds whose special item, if any, stands at a position of K.
FeedsAt(K) == {PlainFeed(b) : b \in BaseKinds}
              \cup {FeedWith(b, k, sp) : b \in BaseKinds, k \in K, sp \in Special}

Feeds == FeedsAt(1..FeedLen)

----------------------------------------------------------------------------
VARIABLES
    \* the feed source (browser)
    feed,                   \* the account's timeline, newest first
    top,                    \* number of items scrolled above the viewport
    scroll_step,            \* how many further items one scroll loads
    page,                   \* title and address of the page after driver.get
    \* the arguments and clock of scroll_and_collect_tweets
    now, max_tweets, days_back,
    \* its locals
    tweets_data, processed_tweet_ids, scroll_attempts, no_new_tweets_count,
    oldest_tweet_timestamp, tweet_elements, new_tweets_found,
    pos,                    \* index of the for loop in tweet_elements
    pc,                     \* "idle", "crawl", "while", "for", "returned", "raised",
                            \* "done", "killed"
    \* crawl_twitter_account
    crawl_result,           \* the list it returns
    \* the exceptions of the browser and of the console
    faults_left,            \* how many of them may still be raised
    fault_kind,             \* the last one raised, "none" if none
    \* history (not program state)
    reason,                 \* why the loop returned
    ids_at_round_start,     \* processed_tweet_ids when the round began
    stagnant_streak,        \* consecutive finished rounds without a new id
    streak_base,            \* tweets_data when the last round with a new id ended
    failed_ids,             \* ids whose iteration raised after the id was recorded
    \* a call of parse_tweet_time_to_timestamp on its own
    r_time_str, r_now, r_result, r_pc,
    r_raised,               \* whether the call ended by an exception
    \* a call of extract_tweet_data on its own
    x_element, x_record, x_pc,
    \* the folder twitter_data and the calls of save_tweets_to_json
    files,                  \* the files of the folder: name and content
    wall_clock,             \* the wall clock, in seconds
    last_save,              \* history: the last call, and the folder before it
    saves_done,             \* history: how many calls were made
    \* main of the crawler
    main_pc,                \* "idle", "start", "loop", "done"
    success,                \* what main returns
    all_results,            \* one entry per account that was saved
    sessions,               \* history: what each crawled account returned
    \* the scheduler
    sched_pc,               \* "off", "on", "crawling", "uploading"
    in_loop,                \* the first run is over and main is in its loop
    daily_run_count, last_run_date, run_times,
    stats_file,             \* scheduler_stats.json, <<>> when missing
    hour_now,               \* the wall clock, in hours
    next_run,               \* the hour at which the hourly job is due
    return_code,            \* exit code of the last crawler process, -1 if none
    last_return,            \* what the last call of run_crawler returned
    upload_ok,              \* what the last upload_to_s3 returned
    starts,                 \* history: how often the scheduler was started
    launches,               \* history: crawler processes launched, per date
    finished_ok,            \* history: runs ended with exit code 0, per date
    launched_ok,            \* history: the same runs, per date of their launch
    \* upload_to_s3 of s3_uploader
    remote,                 \* the objects of the bucket: key and body
    folder_exists,          \* whether the folder twitter_data exists
    s3_result,              \* what the last call returned, "none" before it
    s3_before,              \* history: the bucket before the last call
    s3_uploaded,            \* history: the names uploaded by the last call
    s3_calls                \* history: how many calls were made

feedVars    == <<feed, top, scroll_step, page>>
argVars     == <<now, max_tweets, days_back>>
localVars   == <<tweets_data, processed_tweet_ids, scroll_attempts, no_new_tweets_count,
                 oldest_tweet_timestamp, tweet_elements, new_tweets_found, pos, pc>>
historyVars == <<reason, ids_at_round_start, stagnant_streak, streak_base, failed_ids>>
crawlVars   == <<crawl_result, faults_left, fault_kind>>
resolveVars == <<r_time_str, r_now, r_result, r_pc, r_raised>>
extractVars == <<x_element, x_record, x_pc>>
storeVars   == <<files, wall_clock, last_save, saves_done>>
mainVars    == <<main_pc, success, all_results, sessions>>
schedVars   == <<sched_pc, in_loop, daily_run_count, last_run_date, run_times,
                 stats_file, hour_now, next_run, return_code, last_return, upload_ok,
                 starts, launches, finished_ok, launched_ok>>
s3Vars      == <<remote, folder_exists, s3_result, s3_before, s3_uploaded, s3_calls>>
outsideVars == <<storeVars, mainVars, schedVars, s3Vars>>
vars        == <<feedVars, argVars, localVars, historyVars, crawlVars, resolveVars,
                 extractVars, outsideVars>>

----------------------------------------------------------------------------
(* The pieces of scroll_and_collect_tweets.                                *)

\* hash(tweet_html): a value in the range of the interpreter's hash.
HashModulus == 2147483647
hash(tweet_html) == tweet_html % HashModulus

\* driver.find_elements(...): the items rendered at the scroll position.
find_elements(f, t) == SubSeq(f, t + 1, Min(t + PageSize, Len(f)))

(* extract_tweet_data(tweet_element, index) on an element given by what    *)
(* its lookups answer.  Each lookup is an outcome, Raised when the lookup   *)
(* raises (no such element, stale element):                                *)
(*   pinned_probes  for each of the three indicators, whether it is found  *)
(*   text_elem      the text of the tweetText element                      *)
(*   whole_text     tweet_element.text                                     *)
(*   time_elem      the time element: its datetime attribute (empty when   *)
(*                  it has none) and the outcome of reading its text       *)
(*   status_labels  the aria-labels of the status links (empty for None)   *)
(*   author, url    the User-Name text, the href of the status link        *)
(*   stats          the texts of the spans of the action group             *)

\* `aria_label and any(t in aria_label.lower() for t in ['ago','h','m','d'])`
label_accepted(aria_label) ==
    /\ aria_label # <<>>
    /\ \/ ContainsSub(Lower(aria_label), <<"a", "g", "o">>)
       \/ \E t \in {"h", "m", "d"} : Contains(Lower(aria_label), t)

\* The pinned indicators, tried in order; a lookup that raises is skipped.
pinned_field(el) == \E k \in DOMAIN el.pinned_probes : el.pinned_probes[k]

\* The text, by the tweetText element or else by the third part of the
\* element's own text split at the two characters backslash, n.
text_field(el) ==
    IF el.text_elem.ok THEN Strip(el.text_elem.val)
    ELSE IF el.whole_text.ok /\ Len(Split(el.whole_text.val, <<"\\", "n">>)) >= 3
    THEN Split(el.whole_text.val, <<"\\", "n">>)[3]
    ELSE <<>>

\* The placeholder the handler of the backup method writes.
UnknownTime == <<"U", "n", "k", "n", "o", "w", "n", " ", "t", "i", "m", "e">>

\* The backup method for the time: the first accepted label of the status
\* links; `current` is kept when there is none.
time_backup(el, current) ==
    IF ~el.status_labels.ok THEN UnknownTime
    ELSE LET labels   == el.status_labels.val
             accepted == {k \in DOMAIN labels : label_accepted(labels[k])}
         IN  IF accepted = {} THEN current ELSE labels[MinOf(accepted)]

\* date, time and timestamp.  The date is assigned before the text of the
\* time element is read; timestamp is set after both.
time_fields(el) ==
    IF ~el.time_elem.ok
    THEN [date |-> <<>>, time |-> time_backup(el, <<>>), has_timestamp |-> FALSE]
    ELSE IF ~el.time_elem.val.text.ok
    THEN [date |-> el.time_elem.val.datetime, time |-> time_backup(el, <<>>),
          has_timestamp |-> FALSE]
    ELSE [date |-> el.time_elem.val.datetime, time |-> el.time_elem.val.text.val,
          has_timestamp |-> TRUE]

author_field(el) == IF el.author.ok THEN Strip(el.author.val) ELSE <<>>

url_field(el) == IF el.url.ok THEN el.url.val ELSE <<>>

\* The engagement mapping as a set of <<key, value>> pairs.
engagement_field(el) ==
    IF el.stats.ok /\ Len(el.stats.val) >= 3
    THEN {<<"replies", el.stats.val[1]>>, <<"retweets", el.stats.val[2]>>,
          <<"likes", el.stats.val[3]>>}
    ELSE {}

\* The record returned.  is_pinned stands for tweet_data.get('is_pinned',
\* False): the key is only written when an indicator is found.
extract_fields(el, index) ==
    LET t == time_fields(el)
    IN  [index      |-> index,
         text       |-> text_field(el),
         time       |-> t.time,
         date       |-> t.date,
         author     |-> author_field(el),
         url        |-> url_field(el),
         engagement |-> engagement_field(el),
         is_pinned  |-> pinned_field(el)]

\* What the lookups answer on an item of the feed: a time element when the
\* item has a datetime or a label, no acceptable status label, the permalink
\* given by the markup; the text, the author and the counts are not read by
\* the loop and are left out.
ElementOf(raw) ==
    [pinned_probes |-> <<raw.pinned, FALSE, FALSE>>,
     text_elem     |-> Raised,
     whole_text    |-> Raised,
     time_elem     |-> IF raw.datetime = <<>> /\ raw.label = <<>> THEN Raised
                       ELSE Ok([datetime |-> raw.datetime, text |-> Ok(raw.label)]),
     status_labels |-> Ok(<<>>),
     author        |-> Raised,
     url           |-> Ok(raw.html),
     stats         |-> Raised]

\* The record numbered from 0 instead of 1.
extract_tweet_data_mut(tweet_element, index) ==
    LET record == extract_fields(ElementOf(tweet_element), index)
    IN  [index     |-> index - 1,
         url       |-> record.url,
         date      |-> record.date,
         time      |-> record.time,
         is_pinned |-> record.is_pinned]

\* extract_tweet_data(tweet_element, index) on an item of the feed: the
\* fields of the record that the loop reads.
extract_tweet_data(tweet_element, index) ==
    LET record == extract_fields(ElementOf(tweet_element), index)
    IN  [index     |-> index,
         url       |-> record.url,
         date      |-> record.date,
         time      |-> record.time,
         is_pinned |-> record.is_pinned]

\* tweet_data.get('date') or tweet_data.get('time', '')
tweet_time_str_of(tweet_data) ==
    IF tweet_data.date # <<>> THEN tweet_data.date ELSE tweet_data.time

\* cutoff_date.timestamp(); only read when days_back > 0.
cutoff_timestamp(clock, days) == clock - days * SecondsPerDay

\* The membership test is lost: every rendered item counts as new.
is_processed_mut(tweet_id, ids) == FALSE

\* `tweet_id in processed_tweet_ids`
is_processed(tweet_id, ids) == tweet_id \in ids

\* The pinned exemption is lost.
time_limited_mut_pinned(days, is_pinned) == days > 0

\* days_back = 0 read as a window of zero days.
time_limited_mut_zero(days, is_pinned) == days >= 0 /\ ~is_pinned

\* `days_back > 0 and not is_pinned`: the candidate is subject to the window.
time_limited(days, is_pinned) == days > 0 /\ ~is_pinned

\* The comparison with the cutoff made inclusive.
outside_range_mut(ts, cutoff) == ts <= cutoff

\* `tweet_timestamp < cutoff_date.timestamp()`
outside_range(ts, cutoff) == ts < cutoff

\* The confirmation threshold off by one.
stop_on_old_mut(n) == n > ConfirmThreshold

\* `len(tweets_data) >= 10`: an old tweet ends the session.
stop_on_old(n) == n >= ConfirmThreshold

\* The bootstrap threshold off by one.
keep_undated_mut(n) == n <= BootstrapThreshold

\* `len(tweets_data) < 5`: a tweet without a usable time is kept.
keep_undated(n) == n < BootstrapThreshold

\* The "Check time range" block: what the loop does with a candidate when
\* n records are accepted.  include: append it; stop: return at once;
\* ts: the resolved time when it was computed and positive, else 0;
\* logs: the block prints a line about the candidate; raised: the time
\* resolution raised.
check_time_range(tweet_data, n, days, clock) ==
    LET tweet_time_str == tweet_time_str_of(tweet_data)
        Verdict(inc, stp, t, lg) ==
            [include |-> inc, stop |-> stp, ts |-> t, logs |-> lg, raised |-> FALSE]
        \* the block, given the outcome of the call of line 288
        Block(call) ==
            IF ~time_limited(days, tweet_data.is_pinned)
            THEN Verdict(TRUE, FALSE, 0, FALSE)
            ELSE IF tweet_time_str # <<>>
            THEN IF ~call.ok
                 THEN [include |-> FALSE, stop |-> FALSE, ts |-> 0, logs |-> FALSE,
                       raised |-> TRUE]
                 ELSE IF call.val > 0
                 THEN IF outside_range(call.val, cutoff_timestamp(clock, days))
                      THEN Verdict(FALSE, stop_on_old(n), call.val, TRUE)
                      ELSE Verdict(TRUE, FALSE, call.val, FALSE)
                 ELSE Verdict(keep_undated(n), FALSE, 0, ~keep_undated(n))
            ELSE Verdict(keep_undated(n), FALSE, 0, FALSE)
    IN  CHOOSE verdict \in {Block(call) : call \in {parse_call(tweet_time_str, clock)}} : TRUE

\* The test of the scroll count lost.
loop_condition_mut(n, limit, attempts) == n < limit

\* The test of the item count lost.
loop_condition_mut_items(n, limit, attempts) == attempts < RoundLimit

\* The while condition.
loop_condition(n, limit, attempts) == n < limit /\ attempts < RoundLimit

\* The stagnation test off by one.
stagnation_break_mut(count) == count > StagnationLimit

\* `if no_new_tweets_count >= 5: break`, on the incremented counter.
stagnation_break(count) == count >= StagnationLimit

\* The last `if` of the loop body, on the incremented scroll_attempts.
scroll_break(attempts, n) ==
    attempts >= HardScrollLimit \/ (attempts >= RoundLimit /\ n < FewTweets)

\* window.scrollBy(0, 1000): the page either loads `step` further items,
\* keeping the last rendered ones in view, or shows the same items again.
scroll_targets(f, t, step) ==
    {t} \cup (IF t + PageSize < Len(f) THEN {t + step} ELSE {})

----------------------------------------------------------------------------
(* scroll_and_collect_tweets(driver, account_name, max_tweets, days_back)  *)

\* The state before the first round, for given arguments, with control at
\* the place `at`.
Entry(f, limit, days, at) ==
    /\ feed = f
    /\ top = 0
    /\ now = SessionNow
    /\ max_tweets = limit
    /\ days_back = days
    /\ tweets_data = <<>>
    /\ processed_tweet_ids = {}
    /\ scroll_attempts = 0
    /\ no_new_tweets_count = 0
    /\ oldest_tweet_timestamp = SessionNow
    /\ tweet_elements = <<>>
    /\ new_tweets_found = FALSE
    /\ pos = 1
    /\ pc = at
    /\ reason = "NONE"
    /\ ids_at_round_start = {}
    /\ stagnant_streak = 0
    /\ streak_base = <<>>
    /\ failed_ids = {}

\* The state at the entry of the while loop.
Session(f, limit, days) == Entry(f, limit, days, "while")

ResolveIdle ==
    /\ r_time_str = <<>>
    /\ r_now = 0
    /\ r_result = 0
    /\ r_pc = "idle"
    /\ r_raised = FALSE
    /\ x_element = <<>>
    /\ x_record = <<>>
    /\ x_pc = "idle"

\* No folder of artifacts, and no call of save_tweets_to_json.
StoreIdle ==
    /\ files = {}
    /\ wall_clock = 0
    /\ last_save = <<>>
    /\ saves_done = 0

\* main is not running.
MainIdle ==
    /\ main_pc = "idle"
    /\ success = FALSE
    /\ all_results = <<>>
    /\ sessions = <<>>

\* No scheduler.
SchedIdle ==
    /\ sched_pc = "idle"
    /\ in_loop = FALSE
    /\ daily_run_count = 0
    /\ last_run_date = -1
    /\ run_times = 0
    /\ stats_file = <<>>
    /\ hour_now = 0
    /\ next_run = 0
    /\ return_code = -1
    /\ last_return = "none"
    /\ upload_ok = TRUE
    /\ starts = 0
    /\ launches = <<>>
    /\ finished_ok = <<>>
    /\ launched_ok = <<>>

\* No call of the uploader.
S3Idle ==
    /\ remote = {}
    /\ folder_exists = TRUE
    /\ s3_result = "none"
    /\ s3_before = {}
    /\ s3_uploaded = {}
    /\ s3_calls = 0

\* Nothing outside the crawl of one account is running.
OutsideIdle == StoreIdle /\ MainIdle /\ SchedIdle /\ S3Idle

\* The profile page of an account, and the two faces of the login wall.
PageProfile    == [title |-> <<"T", "e", "s", "l", "a", " ", "/", " ", "X">>,
                   url   |-> <<"x", ".", "c", "o", "m", "/", "T", "e", "s", "l", "a">>]
PageLoginTitle == [title |-> <<"L", "o", "g", " ", "i", "n", " ", "t", "o", " ", "X">>,
                   url   |-> <<"x", ".", "c", "o", "m", "/", "T", "e", "s", "l", "a">>]
PageLoginUrl   == [title |-> <<"X">>,
                   url   |-> <<"x", ".", "c", "o", "m", "/", "i", "/", "f", "l", "o", "w", "/",
                             "l", "o", "g", "i", "n">>]

\* A browser and a console that raise nothing, a page that loads a screenful
\* less one per scroll, and the profile page shown.
Undisturbed ==
    /\ scroll_step = PageSize - 1
    /\ page = PageProfile
    /\ crawl_result = <<>>
    /\ faults_left = 0
    /\ fault_kind = "none"

\* main -> crawl_twitter_account -> scroll_and_collect_tweets(max_tweets=3000,
\* days_back=7)
Init ==
    /\ \E f \in Feeds : Session(f, DefaultMaxTweets, DefaultDaysBack)
    /\ Undisturbed
    /\ ResolveIdle
    /\ OutsideIdle

\* The exceptions that may be raised where the loop talks to the browser
\* (find_elements, execute_script) and, inside one iteration of the for loop,
\* by get_attribute (stale), by a print before the append decision
\* (log_reject) and by a print after the append (log_found).
SourceFaults == {"source"}
ItemFaults   == {"stale", "log_reject", "log_found"}

FaultChoices(kinds) == {"none"} \cup (IF faults_left > 0 THEN kinds ELSE {})

\* The bookkeeping of a raised exception.
Injected(fault) ==
    /\ faults_left' = IF fault = "none" THEN faults_left ELSE faults_left - 1
    /\ fault_kind' = IF fault = "none" THEN fault_kind ELSE fault

\* The handler of the for loop removed: the exception leaves the loop.
item_handler_mut == "raised"

\* `except Exception as e: continue`: where control goes when an iteration
\* of the for loop raises.
item_handler == "for"

\* `return tweets` after a normal return of the loop.
crawl_return(tweets) == tweets

\* `except Exception as e: ... return []`
crawl_except(tweets) == <<>>

\* The login test removed.
login_required_mut(title, url) == FALSE

\* `"log in" in driver.title.lower() or "login" in driver.current_url.lower()`
login_required(title, url) ==
    \/ ContainsSub(Lower(title), <<"l", "o", "g", " ", "i", "n">>)
    \/ ContainsSub(Lower(url), <<"l", "o", "g", "i", "n">>)

\* The set of seen ids restarted at each new id.
add_processed_mut(ids, tweet_id) == {tweet_id}

\* The id never recorded.
add_processed_mut_none(ids, tweet_id) == ids

\* `processed_tweet_ids.add(tweet_id)`
add_processed(ids, tweet_id) == ids \cup {tweet_id}

\* The progress of the stagnation counter never reset.
stagnation_count_mut(found, count) == IF found THEN count ELSE count + 1

\* `if not new_tweets_found: no_new_tweets_count += 1 ... else:
\* no_new_tweets_count = 0`
stagnation_count(found, count) == IF found THEN 0 ELSE count + 1

\* The last resolved time instead of the smallest.
oldest_update_mut(oldest, ts) == IF ts > 0 THEN ts ELSE oldest

\* `oldest_tweet_timestamp = min(oldest_tweet_timestamp, tweet_timestamp)`,
\* reached with a positive resolved time only.
oldest_update(oldest, ts) == IF ts > 0 THEN Min(oldest, ts) ELSE oldest

\* crawl_twitter_account up to the call of the loop: the page is loaded and
\* tested for the login wall.
Navigate ==
    /\ pc = "crawl"
    /\ IF login_required(page.title, page.url)
       THEN /\ crawl_result' = <<>>
            /\ pc' = "done"
            /\ reason' = "AUTH_REQUIRED"
       ELSE /\ pc' = "while"
            /\ UNCHANGED <<crawl_result, reason>>
    /\ UNCHANGED <<feedVars, argVars, tweets_data, processed_tweet_ids, scroll_attempts,
                   no_new_tweets_count, oldest_tweet_timestamp, tweet_elements,
                   new_tweets_found, pos, ids_at_round_start, stagnant_streak, streak_base,
                   failed_ids, faults_left, fault_kind, resolveVars, extractVars, outsideVars>>

\* The while test and, when it holds, the read of the rendered items.
BeginRound ==
    /\ pc = "while"
    /\ IF loop_condition(Len(tweets_data), max_tweets, scroll_attempts)
       THEN \E fault \in FaultChoices(SourceFaults) :
            /\ Injected(fault)
            /\ IF fault = "source"
               THEN /\ pc' = "raised"
                    /\ reason' = "RAISED"
                    /\ UNCHANGED <<tweet_elements, new_tweets_found, pos, ids_at_round_start>>
               ELSE /\ tweet_elements' = find_elements(feed, top)
                    /\ new_tweets_found' = FALSE
                    /\ pos' = 1
                    /\ pc' = "for"
                    /\ ids_at_round_start' = processed_tweet_ids
                    /\ UNCHANGED reason
       ELSE /\ pc' = "returned"
            /\ reason' = IF Len(tweets_data) >= max_tweets THEN "ITEM_LIMIT" ELSE "ROUND_LIMIT"
            /\ UNCHANGED <<tweet_elements, new_tweets_found, pos, ids_at_round_start,
                           faults_left, fault_kind>>
    /\ UNCHANGED <<feedVars, argVars, tweets_data, processed_tweet_ids, scroll_attempts,
                   no_new_tweets_count, oldest_tweet_timestamp, stagnant_streak,
                   streak_base, failed_ids, crawl_result, resolveVars, extractVars, outsideVars>>

\* One iteration of the for loop over the rendered items.
ProcessItem ==
    /\ pc = "for"
    /\ pos <= Len(tweet_elements)
    /\ \E fault \in FaultChoices(ItemFaults),
          tweet_data \in {extract_tweet_data(tweet_elements[pos], Len(tweets_data) + 1)} :
       \E verdict \in {check_time_range(tweet_data, Len(tweets_data), days_back, now)} :
       LET tweet_id == hash(tweet_elements[pos].html)
           seen     == is_processed(tweet_id, processed_tweet_ids)
       IN
       /\ Injected(fault)
       /\ failed_ids' = IF fault # "stale" /\ ~seen
                           /\ (verdict.raised \/ fault \in {"log_reject", "log_found"})
                        THEN failed_ids \cup {tweet_id} ELSE failed_ids
       /\ fault = "log_reject" => ~seen /\ verdict.logs
       /\ fault = "log_found" => ~seen /\ verdict.include
       /\ IF fault = "stale"
          THEN /\ pos' = pos + 1
               /\ pc' = item_handler
               /\ UNCHANGED <<tweets_data, processed_tweet_ids, oldest_tweet_timestamp,
                              new_tweets_found, reason>>
          ELSE IF seen
          THEN /\ pos' = pos + 1
               /\ UNCHANGED <<tweets_data, processed_tweet_ids, oldest_tweet_timestamp,
                              new_tweets_found, pc, reason>>
          ELSE /\ processed_tweet_ids' = add_processed(processed_tweet_ids, tweet_id)
               /\ new_tweets_found' = TRUE
               /\ oldest_tweet_timestamp' = oldest_update(oldest_tweet_timestamp, verdict.ts)
               /\ IF verdict.raised \/ fault = "log_reject"
                  THEN /\ pos' = pos + 1
                       /\ pc' = item_handler
                       /\ UNCHANGED <<tweets_data, reason>>
                  ELSE IF verdict.stop
                  THEN /\ pc' = "returned"
                       /\ reason' = "WINDOW_SATISFIED"
                       /\ UNCHANGED <<tweets_data, pos>>
                  ELSE /\ tweets_data' = IF verdict.include
                                         THEN Append(tweets_data, tweet_data)
                                         ELSE tweets_data
                       /\ pos' = pos + 1
                       /\ pc' = IF fault = "log_found" THEN item_handler ELSE pc
                       /\ UNCHANGED reason
    /\ UNCHANGED <<feedVars, argVars, scroll_attempts, no_new_tweets_count, tweet_elements,
                   ids_at_round_start, stagnant_streak, streak_base, crawl_result,
                   resolveVars, extractVars, outsideVars>>

\* The rest of the loop body, after the for loop: the stagnation count, the
\* scroll, and the scroll budget.
EndRound ==
    /\ pc = "for"
    /\ pos > Len(tweet_elements)
    /\ stagnant_streak' = IF processed_tweet_ids = ids_at_round_start
                          THEN stagnant_streak + 1 ELSE 0
    /\ streak_base' = IF processed_tweet_ids = ids_at_round_start
                      THEN streak_base ELSE tweets_data
    /\ no_new_tweets_count' = stagnation_count(new_tweets_found, no_new_tweets_count)
    /\ IF ~new_tweets_found /\ stagnation_break(no_new_tweets_count + 1)
       THEN /\ pc' = "returned"
            /\ reason' = "STAGNATION"
            /\ UNCHANGED <<top, scroll_attempts, faults_left, fault_kind>>
       ELSE \E fault \in FaultChoices(SourceFaults) :
            /\ Injected(fault)
            /\ IF fault = "source"
               THEN /\ pc' = "raised"
                    /\ reason' = "RAISED"
                    /\ UNCHANGED <<top, scroll_attempts>>
               ELSE /\ top' \in scroll_targets(feed, top, scroll_step)
                    /\ scroll_attempts' = scroll_attempts + 1
                    /\ IF scroll_break(scroll_attempts + 1, Len(tweets_data))
                       THEN pc' = "returned" /\ reason' = "ROUND_LIMIT"
                       ELSE pc' = "while" /\ UNCHANGED reason
    /\ UNCHANGED <<feed, scroll_step, page, argVars, tweets_data, processed_tweet_ids,
                   oldest_tweet_timestamp, tweet_elements, new_tweets_found, pos,
                   ids_at_round_start, failed_ids, crawl_result, resolveVars, extractVars, outsideVars>>

\* crawl_twitter_account after the loop: its result is the list the loop
\* returned, or what the handler returns when the loop raised.
Return ==
    /\ pc \in {"returned", "raised"}
    /\ crawl_result' = IF pc = "returned" THEN crawl_return(tweets_data)
                       ELSE crawl_except(tweets_data)
    /\ pc' = "done"
    /\ UNCHANGED <<feedVars, argVars, tweets_data, processed_tweet_ids, scroll_attempts,
                   no_new_tweets_count, oldest_tweet_timestamp, tweet_elements,
                   new_tweets_found, pos, historyVars, faults_left, fault_kind, resolveVars, extractVars, outsideVars>>

\* The process is ended from outside while the loop runs (the scheduler's
\* process.terminate(), a keyboard interrupt): nothing is handed back, and
\* the locals of the loop are gone with the process.
Kill ==
    /\ pc \in {"while", "for"}
    /\ pc' = "killed"
    /\ tweets_data' = <<>>
    /\ processed_tweet_ids' = {}
    /\ scroll_attempts' = 0
    /\ no_new_tweets_count' = 0
    /\ oldest_tweet_timestamp' = now
    /\ tweet_elements' = <<>>
    /\ new_tweets_found' = FALSE
    /\ pos' = 1
    /\ reason' = "KILLED"
    /\ ids_at_round_start' = {}
    /\ stagnant_streak' = 0
    /\ streak_base' = <<>>
    /\ failed_ids' = {}
    /\ UNCHANGED <<feedVars, argVars, crawlVars, resolveVars, extractVars, outsideVars>>

Next == BeginRound \/ ProcessItem \/ EndRound

Spec == Init /\ [][Next]_vars

\* A direct call without a time limit (days_back <= 0), with the item limit
\* of crawl_twitter_account or a small one.
InitUnbounded ==
    /\ \E f \in FeedsAt({2, FeedLen}), limit \in {SmallMaxTweets, DefaultMaxTweets},
          days \in {0, -1} : Session(f, limit, days)
    /\ Undisturbed
    /\ ResolveIdle
    /\ OutsideIdle

SpecUnbounded == InitUnbounded /\ [][Next]_vars

\* The loop as a sequential program that always takes its next step, on
\* pages that load one further item or a screenful less one per scroll, with
\* and without a time limit and with either item limit.
TermFeeds ==
    {PlainFeed(b) : b \in BaseKinds}
    \cup {FeedWith("recent", FeedLen, [kind |-> "old", pinned |-> FALSE]),
          FeedWith("recent", 2, [kind |-> "old", pinned |-> FALSE]),
          FeedWith("recent", 2, [kind |-> "old", pinned |-> TRUE])}

InitTerm ==
    /\ \E f \in TermFeeds, limit \in {SmallMaxTweets, DefaultMaxTweets},
          days \in {DefaultDaysBack, 0} : Session(f, limit, days)
    /\ scroll_step \in {1, PageSize - 1}
    /\ page = PageProfile
    /\ crawl_result = <<>>
    /\ faults_left = 0
    /\ fault_kind = "none"
    /\ ResolveIdle
    /\ OutsideIdle

SpecTerm == InitTerm /\ [][Next]_vars /\ WF_vars(Next)

\* crawl_twitter_account(account_name, url, driver, days_back=7) as main calls
\* it, from its entry: the page may be the login wall, the browser or the
\* console may raise up to MaxFaults exceptions, and the process may be ended
\* from outside.
Pages == {PageProfile, PageLoginTitle, PageLoginUrl}

InitCrawl ==
    /\ \E f \in FeedsAt({FeedLen}) : Entry(f, DefaultMaxTweets, DefaultDaysBack, "crawl")
    /\ scroll_step = PageSize - 1
    /\ page \in Pages
    /\ crawl_result = <<>>
    /\ faults_left = MaxFaults
    /\ fault_kind = "none"
    /\ ResolveIdle
    /\ OutsideIdle

NextCrawl == Navigate \/ BeginRound \/ ProcessItem \/ EndRound \/ Return \/ Kill

SpecCrawl == InitCrawl /\ [][NextCrawl]_vars

----------------------------------------------------------------------------
(* parse_tweet_time_to_timestamp called on its own, on a table of inputs   *)
(* and at several clock readings.                                          *)

RelNumbers == {<<"6">>, <<"2">>, <<"3">>, <<"1", "2">>}
RelUnits   == {<<"s">>, <<"m">>, <<"h">>, <<"d">>, <<"w">>, <<"H">>}

RelativeInputs == {n \o u : n \in RelNumbers, u \in RelUnits}

StrNegOffset == <<"2","0","2","4","-","0","1","-","1","8","T","1","2",":","0","0",":","0","0","-","0","5",":","0","0">>
StrNewYear   == <<"2","0","2","4","-","0","1","-","0","1","T","0","0",":","0","0",":","0","0","Z">>
StrBadMonth  == <<"2","0","2","4","-","1","3","-","0","1","T","0","0",":","0","0",":","0","0","Z">>
StrNaive     == <<"2","0","2","4","-","0","1","-","1","8","T","1","2",":","0","0",":","0","0">>

OtherInputs ==
    {<<>>, StrNow, StrRecent, StrEdge, StrOld, StrNegOffset, StrNewYear, StrBadMonth, StrNaive,
     <<"b", "o", "g", "u", "s">>, <<"T", "Z">>, StrBogus,
     <<"\\", "d", " ", "h">>, <<"2", " ", "m", "o", "n", "t", "h", "s">>}

ResolveInputs == RelativeInputs \cup OtherInputs

\* Clock readings: the session clock and the two seconds after it.
ResolveClocks == {SessionNow, SessionNow + 1, SessionNow + 2}

CrawlerIdle ==
    /\ feed = <<>>
    /\ top = 0
    /\ now = 0
    /\ max_tweets = 0
    /\ days_back = 0
    /\ tweets_data = <<>>
    /\ processed_tweet_ids = {}
    /\ scroll_attempts = 0
    /\ no_new_tweets_count = 0
    /\ oldest_tweet_timestamp = 0
    /\ tweet_elements = <<>>
    /\ new_tweets_found = FALSE
    /\ pos = 1
    /\ pc = "idle"
    /\ reason = "NONE"
    /\ ids_at_round_start = {}
    /\ stagnant_streak = 0
    /\ streak_base = <<>>
    /\ failed_ids = {}

InitResolve ==
    /\ CrawlerIdle
    /\ Undisturbed
    /\ OutsideIdle
    /\ x_element = <<>>
    /\ x_record = <<>>
    /\ x_pc = "idle"
    /\ r_time_str \in ResolveInputs
    /\ r_now \in ResolveClocks
    /\ r_result = 0
    /\ r_pc = "call"
    /\ r_raised = FALSE

\* The call returns.
Resolve ==
    /\ r_pc = "call"
    /\ LET outcome == parse_call(r_time_str, r_now)
       IN  /\ r_raised' = ~outcome.ok
           /\ r_result' = IF outcome.ok THEN outcome.val ELSE r_result
    /\ r_pc' = "ret"
    /\ UNCHANGED <<r_time_str, r_now, feedVars, argVars, localVars, historyVars, crawlVars, extractVars, outsideVars>>

\* The same string is resolved again at a later clock reading.
ResolveLater ==
    /\ r_pc = "ret"
    /\ \E t \in ResolveClocks : t > r_now /\ r_now' = t
    /\ r_pc' = "call"
    /\ UNCHANGED <<r_time_str, r_result, r_raised, feedVars, argVars, localVars, historyVars, crawlVars, extractVars, outsideVars>>

NextResolve == Resolve \/ ResolveLater

SpecResolve == InitResolve /\ [][NextResolve]_vars

----------------------------------------------------------------------------
(* extract_tweet_data called on its own, on elements whose lookups answer  *)
(* or raise in every combination.                                          *)

StrText   == <<" ", "h", "i", " ">>
StrLines  == <<"a", "\n", "b", "\n", "h", "i">>
StrSlashN == <<"a", "\\", "n", "b", "\\", "n", "h", "i">>
StrAuthor == <<"T", "e", "s", "l", "a", " ">>
StrHref   == <<"/", "s", "t", "a", "t", "u", "s", "/", "1">>

ExtractElements ==
    [pinned_probes : {<<FALSE, FALSE, FALSE>>, <<TRUE, FALSE, FALSE>>, <<FALSE, FALSE, TRUE>>},
     text_elem     : {Raised, Ok(StrText)},
     whole_text    : {Raised, Ok(StrLines), Ok(StrSlashN)},
     time_elem     : {Raised,
                      Ok([datetime |-> StrRecent, text |-> Ok(<<"2", "d">>)]),
                      Ok([datetime |-> StrRecent, text |-> Raised]),
                      Ok([datetime |-> <<>>, text |-> Ok(StrBogus)])},
     status_labels : {Raised, Ok(<<>>), Ok(<< <<>>, StrRel >>), Ok(<<StrBogus>>)},
     author        : {Raised, Ok(StrAuthor)},
     url           : {Raised, Ok(StrHref)},
     stats         : {Raised, Ok(<<>>), Ok(<<<<"1">>, <<"2">>, <<"3">>>>)}]

InitExtract ==
    /\ CrawlerIdle
    /\ Undisturbed
    /\ OutsideIdle
    /\ r_time_str = <<>>
    /\ r_now = 0
    /\ r_result = 0
    /\ r_pc = "idle"
    /\ r_raised = FALSE
    /\ x_element \in ExtractElements
    /\ x_record = <<>>
    /\ x_pc = "call"

\* The call returns.
Extract ==
    /\ x_pc = "call"
    /\ x_record' = extract_fields(x_element, 1)
    /\ x_pc' = "ret"
    /\ UNCHANGED <<x_element, feedVars, argVars, localVars, historyVars, crawlVars,
                   resolveVars, outsideVars>>

NextExtract == Extract

SpecExtract == InitExtract /\ [][NextExtract]_vars

----------------------------------------------------------------------------
(* save_tweets_to_json(tweets, account_name) called on its own, on a       *)
(* folder that holds artifacts of earlier runs.                            *)

MaxSaves == 3      \* calls of save_tweets_to_json explored

StrTesla       == <<"T", "e", "s", "l", "a">>
StrTeslaMotors == <<"T", "e", "s", "l", "a", "_", "M", "o", "t", "o", "r", "s">>
StrReuters     == <<"R", "e", "u", "t", "e", "r", "s">>
StrJson        == <<".", "j", "s", "o", "n">>

StartsWith(s, prefix) == Len(s) >= Len(prefix) /\ SubSeq(s, 1, Len(prefix)) = prefix
EndsWith(s, suffix) ==
    Len(s) >= Len(suffix) /\ SubSeq(s, Len(s) - Len(suffix) + 1, Len(s)) = suffix

\* The decimal digit of a number below ten.
DigitChar(d) == CHOOSE c \in Digits : DigitVal(c) = d

\* datetime.now().strftime('%Y%m%d_%H%M%S') at a clock reading, counted in
\* seconds from 2024-01-20 00:00:00 and below ten.
strftime_stamp(c) ==
    <<"2", "0", "2", "4", "0", "1", "2", "0", "_", "0", "0", "0", "0", "0", DigitChar(c)>>

\* datetime.now().strftime('%Y-%m-%d %H:%M:%S')
strftime_text(c) ==
    <<"2", "0", "2", "4", "-", "0", "1", "-", "2", "0", " ",
      "0", "0", ":", "0", "0", ":", "0", DigitChar(c)>>

\* The stamp of the artifacts of an earlier run, of 2024-01-19 12:00:00.
StrOldStamp == <<"2", "0", "2", "4", "0", "1", "1", "9", "_", "1", "2", "0", "0", "0", "0">>
StrOldText  == <<"2", "0", "2", "4", "-", "0", "1", "-", "1", "9", " ",
                 "1", "2", ":", "0", "0", ":", "0", "0">>

\* Path(base_dir).glob(f"{account_name}_*.json"): the names of the folder
\* that the pattern matches.
glob_match(name, account_name) ==
    /\ Len(name) >= Len(account_name) + 1 + Len(StrJson)
    /\ StartsWith(name, account_name \o <<"_">>)
    /\ EndsWith(name, StrJson)

\* f"{account_name}_{timestamp}.json", inside base_dir
artifact_name(account_name, timestamp) == account_name \o <<"_">> \o timestamp \o StrJson

\* The dictionary `data` that is dumped into the file.
artifact_data(tweets, account_name, crawl_time) ==
    [account     |-> account_name,
     crawl_time  |-> crawl_time,
     tweet_count |-> Len(tweets),
     tweets      |-> tweets]

\* The folder after save_tweets_to_json(tweets, account_name) at clock
\* reading c, when os.remove raises on the files of `locked`: every file that
\* the pattern matches and that can be removed is removed, then the new file
\* is written, over a file of the same name if there is one.
save_tweets_to_json(folder, tweets, account_name, c, locked) ==
    LET old_files == {f \in folder : glob_match(f.name, account_name)}
        kept      == folder \ (old_files \ locked)
        filename  == artifact_name(account_name, strftime_stamp(c))
    IN  {f \in kept : f.name # filename}
        \cup {[name |-> filename,
                data |-> artifact_data(tweets, account_name, strftime_text(c))]}

\* The artifact that an earlier run left for an account.
OldArtifact(account_name) ==
    [name |-> artifact_name(account_name, StrOldStamp),
     data |-> artifact_data(<<1>>, account_name, StrOldText)]

\* The accounts whose artifacts share the folder, and the record lists saved
\* (records stand as numbers).
SaveAccounts == {StrTesla, StrTeslaMotors, StrReuters}
SaveInputs   == {<<>>, <<1>>, <<1, 2>>}

\* The files on which os.remove may raise in one call: none, or one of them
\* while exceptions are left.
LockChoices(candidates) ==
    {{}} \cup (IF faults_left > 0 THEN {{f} : f \in candidates} ELSE {})

InitSave ==
    /\ CrawlerIdle
    /\ ResolveIdle
    /\ scroll_step = PageSize - 1
    /\ page = PageProfile
    /\ crawl_result = <<>>
    /\ faults_left = MaxFaults
    /\ fault_kind = "none"
    /\ files \in SUBSET {OldArtifact(a) : a \in SaveAccounts}
    /\ wall_clock = 1
    /\ last_save = <<>>
    /\ saves_done = 0
    /\ MainIdle
    /\ SchedIdle
    /\ S3Idle

\* One call of save_tweets_to_json; the clock may have moved on since the
\* call before.
Save ==
    /\ saves_done < MaxSaves
    /\ \E account_name \in SaveAccounts, tweets \in SaveInputs, c \in {wall_clock, wall_clock + 1} :
       \E locked \in LockChoices({f \in files : glob_match(f.name, account_name)}) :
          /\ files' = save_tweets_to_json(files, tweets, account_name, c, locked)
          /\ wall_clock' = c
          /\ last_save' = [account |-> account_name, tweets |-> tweets, before |-> files,
                           filename |-> artifact_name(account_name, strftime_stamp(c))]
          /\ faults_left' = IF locked = {} THEN faults_left ELSE faults_left - 1
          /\ fault_kind' = IF locked = {} THEN fault_kind ELSE "remove"
    /\ saves_done' = saves_done + 1
    /\ UNCHANGED <<feedVars, argVars, localVars, historyVars, crawl_result, resolveVars,
                   extractVars, mainVars, schedVars, s3Vars>>

NextSave == Save

SpecSave == InitSave /\ [][NextSave]_vars

----------------------------------------------------------------------------
(* main of the crawler: every account of TWITTER_ACCOUNTS is crawled in    *)
(* turn and its tweets are saved.                                          *)

StrGaryblack00  == <<"g", "a", "r", "y", "b", "l", "a", "c", "k", "0", "0">>
StrSeekingAlpha == <<"S", "e", "e", "k", "i", "n", "g", "A", "l", "p", "h", "a">>
StrFinanceNews  == <<"F", "i", "n", "a", "n", "c", "e", "N", "e", "w", "s">>

\* The keys of TWITTER_ACCOUNTS, in their order.
TWITTER_ACCOUNTS == <<StrGaryblack00, StrSeekingAlpha, StrTesla, StrFinanceNews, StrReuters>>

\* What crawl_twitter_account may return: the empty list (nothing accepted,
\* the login wall, an exception of the browser) or accepted records.
CrawlResults == SaveInputs

\* The exception that may end the loop of main: the file of an account
\* cannot be written.
MainFaults == {"write"}

InitMain ==
    /\ CrawlerIdle
    /\ ResolveIdle
    /\ scroll_step = PageSize - 1
    /\ page = PageProfile
    /\ crawl_result = <<>>
    /\ faults_left = MaxFaults
    /\ fault_kind = "none"
    /\ files \in SUBSET {OldArtifact(TWITTER_ACCOUNTS[k]) : k \in DOMAIN TWITTER_ACCOUNTS}
    /\ wall_clock = 1
    /\ last_save = <<>>
    /\ saves_done = 0
    /\ main_pc = "start"
    /\ success = FALSE
    /\ all_results = <<>>
    /\ sessions = <<>>
    /\ SchedIdle
    /\ S3Idle

\* main up to the loop: it returns False when the browser does not start or
\* the cookies do not log in.
MainStart ==
    /\ main_pc = "start"
    /\ \E ready \in BOOLEAN :
          main_pc' = IF ready THEN "loop" ELSE "done"
    /\ UNCHANGED <<feedVars, argVars, localVars, historyVars, crawlVars, resolveVars,
                   extractVars, storeVars, success, all_results, sessions, schedVars,
                   s3Vars>>

\* One iteration of `for account_name, url in TWITTER_ACCOUNTS.items()`.
MainAccount ==
    /\ main_pc = "loop"
    /\ Len(sessions) < Len(TWITTER_ACCOUNTS)
    /\ \E tweets \in CrawlResults, fault \in FaultChoices(MainFaults) :
       LET account_name == TWITTER_ACCOUNTS[Len(sessions) + 1]
           filename     == artifact_name(account_name, strftime_stamp(wall_clock))
       IN
       /\ Injected(fault)
       /\ fault = "write" => tweets # <<>>
       /\ sessions' = Append(sessions, tweets)
       /\ IF tweets = <<>>
          THEN UNCHANGED <<files, last_save, saves_done, all_results, main_pc, success>>
          ELSE IF fault = "write"
          THEN /\ files' = {f \in files : ~glob_match(f.name, account_name)}
               /\ main_pc' = "done"
               /\ success' = FALSE
               /\ UNCHANGED <<last_save, saves_done, all_results>>
          ELSE /\ files' = save_tweets_to_json(files, tweets, account_name, wall_clock, {})
               /\ last_save' = [account |-> account_name, tweets |-> tweets,
                                before |-> files, filename |-> filename]
               /\ saves_done' = saves_done + 1
               /\ all_results' = Append(all_results,
                                        [account     |-> account_name,
                                         tweet_count |-> Len(tweets),
                                         tweets      |-> tweets,
                                         file        |-> filename])
               /\ UNCHANGED <<main_pc, success>>
    /\ wall_clock' = wall_clock + 1
    /\ UNCHANGED <<feedVars, argVars, localVars, historyVars, crawl_result, resolveVars,
                   extractVars, schedVars, s3Vars>>

\* main after the loop: the summary, and `success = True`.
MainFinish ==
    /\ main_pc = "loop"
    /\ Len(sessions) = Len(TWITTER_ACCOUNTS)
    /\ success' = TRUE
    /\ main_pc' = "done"
    /\ UNCHANGED <<feedVars, argVars, localVars, historyVars, crawlVars, resolveVars,
                   extractVars, storeVars, all_results, sessions, schedVars, s3Vars>>

NextMain == MainStart \/ MainAccount \/ MainFinish

SpecMain == InitMain /\ [][NextMain]_vars

----------------------------------------------------------------------------
(* SimpleCrawlerScheduler: the crawler is run once when the scheduler      *)
(* starts and then every hour, within a daily limit; its statistics are    *)
(* kept in scheduler_stats.json.                                           *)

DailyLimit    == 24    \* CONFIG['schedule']['daily_limit']
RunHistoryCap == 10    \* `if len(self.run_times) > 10`
HoursPerDay   == 24

MaxHours  == 26        \* the last hour of wall clock explored
MaxStarts == 2         \* starts of the scheduler explored

crawlerVars == <<feedVars, argVars, localVars, historyVars, crawlVars, resolveVars,
                 extractVars>>

\* datetime.now().date(), counted in days from 2024-01-20
date_of(hour) == hour \div HoursPerDay

Dates == 0..date_of(MaxHours)

\* date.isoformat()
isoformat_date(d) == <<"2", "0", "2", "4", "-", "0", "1", "-", "2", DigitChar(d)>>

\* datetime.strptime(last_date, '%Y-%m-%d').date()
strptime_date(str) ==
    IF /\ Len(str) = 10
       /\ SubSeq(str, 1, 9) = <<"2", "0", "2", "4", "-", "0", "1", "-", "2">>
       /\ str[10] \in Digits
    THEN Ok(DigitVal(str[10]))
    ELSE Raised

\* load_stats: the count and the date that the scheduler starts with.
load_stats(file) ==
    IF file = <<>>
    THEN [daily_run_count |-> 0, last_run_date |-> -1]
    ELSE [daily_run_count |-> file.daily_run_count,
          last_run_date   |-> IF file.last_run_date # <<>>
                                 /\ strptime_date(file.last_run_date).ok
                              THEN strptime_date(file.last_run_date).val
                              ELSE -1]

\* save_stats: the content written to scheduler_stats.json.
save_stats(count, last, hour) ==
    [daily_run_count |-> count,
     last_run_date   |-> isoformat_date(date_of(hour))]

\* check_daily_limit: the count and the date after the call, and its answer.
check_daily_limit(count, last, hour) ==
    LET current_date == date_of(hour)
        fresh        == IF last # current_date THEN 0 ELSE count
    IN  [daily_run_count |-> fresh,
         last_run_date   |-> current_date,
         allowed         |-> fresh < DailyLimit]

\* The upload started whatever the exit code.
starts_upload_mut(code, auto_upload) == auto_upload

\* `if return_code == 0: ... if self.config['s3']['auto_upload']:`
starts_upload(code, auto_upload) == code = 0 /\ auto_upload

\* How the run of the uploader script may end.
UploadOutcomes == {"zero", "nonzero", "timeout", "error"}

\* SimpleCrawlerScheduler.upload_to_s3: what it returns.
sched_upload_to_s3(enabled, script_exists, outcome) ==
    IF ~enabled THEN TRUE
    ELSE IF ~script_exists THEN FALSE
    ELSE outcome = "zero"

\* `return True` after the upload, whatever it returned.
run_result(s3_success) == "True"

\* The scheduler is off, two hours before midnight of the first day: either
\* it never ran, or it ran every hour of the day so far, with success, and
\* was stopped after its last run.
InitSched ==
    /\ CrawlerIdle
    /\ ResolveIdle
    /\ Undisturbed
    /\ StoreIdle
    /\ MainIdle
    /\ S3Idle
    /\ sched_pc = "off"
    /\ in_loop = FALSE
    /\ daily_run_count = 0
    /\ last_run_date = -1
    /\ run_times = 0
    /\ hour_now = HoursPerDay - 2
    /\ next_run = 0
    /\ return_code = -1
    /\ last_return = "none"
    /\ upload_ok = TRUE
    /\ starts = 0
    /\ \E runs_so_far \in {0, HoursPerDay - 2} :
          /\ stats_file = IF runs_so_far = 0 THEN <<>>
                          ELSE save_stats(runs_so_far, 0, hour_now)
          /\ launches = [d \in Dates |-> IF d = 0 THEN runs_so_far ELSE 0]
          /\ finished_ok = launches
          /\ launched_ok = launches

\* main of the scheduler up to its first call of run_crawler: a scheduler is
\* made, which loads the statistics, and the hourly job is registered.
SchedStart ==
    /\ sched_pc = "off"
    /\ starts < MaxStarts
    /\ starts' = starts + 1
    /\ daily_run_count' = load_stats(stats_file).daily_run_count
    /\ last_run_date' = load_stats(stats_file).last_run_date
    /\ run_times' = 0
    /\ in_loop' = FALSE
    /\ next_run' = hour_now + 1
    /\ sched_pc' = "on"
    /\ UNCHANGED <<stats_file, hour_now, return_code, last_return, upload_ok, launches,
                   finished_ok, launched_ok, crawlerVars, storeVars, mainVars, s3Vars>>

\* An hour passes.
SchedTick ==
    /\ hour_now < MaxHours
    /\ hour_now' = hour_now + 1
    /\ UNCHANGED <<sched_pc, in_loop, daily_run_count, last_run_date, run_times,
                   stats_file, next_run, return_code, last_return, upload_ok, starts,
                   launches, finished_ok, launched_ok, crawlerVars, storeVars, mainVars, s3Vars>>

\* run_crawler is called, by main at the start or by the hourly job when it
\* is due: the daily limit is checked and the crawler process is launched.
RunCrawler ==
    /\ sched_pc = "on"
    /\ ~in_loop \/ hour_now >= next_run
    /\ LET checked == check_daily_limit(daily_run_count, last_run_date, hour_now)
       IN  /\ daily_run_count' = checked.daily_run_count
           /\ last_run_date' = checked.last_run_date
           /\ IF checked.allowed
              THEN /\ sched_pc' = "crawling"
                   /\ launches' = [launches EXCEPT ![date_of(hour_now)] = @ + 1]
                   /\ UNCHANGED <<last_return, in_loop>>
              ELSE /\ last_return' = "False"
                   /\ in_loop' = TRUE
                   /\ UNCHANGED <<sched_pc, launches>>
    /\ next_run' = IF in_loop THEN hour_now + 1 ELSE next_run
    /\ return_code' = -1
    /\ UNCHANGED <<run_times, stats_file, hour_now, upload_ok, starts, finished_ok,
                   launched_ok, crawlerVars, storeVars, mainVars, s3Vars>>

\* The crawler process ends with an exit code, or waiting for it raises.
\* After exit code 0 the run is counted, the statistics are saved and the
\* upload is started.
CrawlerExit ==
    /\ sched_pc = "crawling"
    /\ \E code \in {0, 1, 2} :
       \* 2 stands for an exception inside the try block (`except Exception`)
       /\ return_code' = code
       /\ run_times' = IF code = 2 THEN run_times
                       ELSE Min(run_times + 1, RunHistoryCap)
       /\ IF code = 0
          THEN /\ daily_run_count' = daily_run_count + 1
               /\ stats_file' = save_stats(daily_run_count + 1, last_run_date, hour_now)
               /\ finished_ok' = [finished_ok EXCEPT ![date_of(hour_now)] = @ + 1]
               /\ launched_ok' = [launched_ok EXCEPT ![last_run_date] = @ + 1]
          ELSE UNCHANGED <<daily_run_count, stats_file, finished_ok, launched_ok>>
       /\ IF starts_upload(code, TRUE)
          THEN /\ sched_pc' = "uploading"
               /\ UNCHANGED <<last_return, in_loop>>
          ELSE /\ sched_pc' = "on"
               /\ last_return' = IF code = 0 THEN "True" ELSE "False"
               /\ in_loop' = TRUE
    /\ UNCHANGED <<last_run_date, hour_now, next_run, upload_ok, starts, launches,
                   crawlerVars, storeVars, mainVars, s3Vars>>

\* upload_to_s3 of the scheduler returns, and run_crawler with it.
UploadDone ==
    /\ sched_pc = "uploading"
    /\ \E script_exists \in BOOLEAN, outcome \in UploadOutcomes :
       /\ upload_ok' = sched_upload_to_s3(TRUE, script_exists, outcome)
       /\ last_return' = run_result(sched_upload_to_s3(TRUE, script_exists, outcome))
    /\ sched_pc' = "on"
    /\ in_loop' = TRUE
    /\ UNCHANGED <<daily_run_count, last_run_date, run_times, stats_file, hour_now,
                   next_run, return_code, starts, launches, finished_ok, launched_ok,
                   crawlerVars, storeVars, mainVars, s3Vars>>

\* Ctrl+C. In the loop of main the statistics are saved and the scheduler
\* ends; during the first run, which main makes outside its try block, the
\* scheduler ends without saving.
Interrupt ==
    /\ sched_pc \in {"on", "crawling", "uploading"}
    /\ stats_file' = IF in_loop
                     THEN save_stats(daily_run_count, last_run_date, hour_now)
                     ELSE stats_file
    /\ sched_pc' = "off"
    /\ UNCHANGED <<in_loop, daily_run_count, last_run_date, run_times, hour_now, next_run,
                   return_code, last_return, upload_ok, starts, launches, finished_ok,
                   launched_ok, crawlerVars, storeVars, mainVars, s3Vars>>

NextSched == SchedStart \/ SchedTick \/ RunCrawler \/ CrawlerExit \/ UploadDone \/ Interrupt

SpecSched == InitSched /\ [][NextSched]_vars

----------------------------------------------------------------------------
(* upload_to_s3 of s3_uploader: the old data files of the bucket are       *)
(* deleted and the files of twitter_data are uploaded.                     *)

MaxUploads == 2    \* calls of upload_to_s3 explored

\* 'smart_news/twitter/'
StrPrefix == <<"s", "m", "a", "r", "t", "_", "n", "e", "w", "s", "/",
               "t", "w", "i", "t", "t", "e", "r", "/">>
StrIndex  == <<"i", "n", "d", "e", "x", ".", "j", "s", "o", "n">>

RECURSIVE Concat(_)
\* ''.join(parts)
Concat(parts) == IF parts = <<>> THEN <<>> ELSE Head(parts) \o Concat(Tail(parts))

\* obj['Key'].replace('smart_news/twitter/', '')
key_file_name(key) == Concat(Split(key, StrPrefix))

\* f"smart_news/twitter/{file_name}"
s3_key(file_name) == StrPrefix \o file_name

\* The test of the data files: account_YYYYMMDD_HHMMSS.json
should_delete(file_name) ==
    /\ Contains(file_name, "_")
    /\ EndsWith(file_name, StrJson)
    /\ Len(Split(file_name, <<"_">>)) >= 3

\* glob of '*.json', '*.txt', '*.csv' in the folder
is_data_file(name) ==
    \/ EndsWith(name, StrJson)
    \/ EndsWith(name, <<".", "t", "x", "t">>)
    \/ EndsWith(name, <<".", "c", "s", "v">>)

\* The ClientErrors of one call: at the connection test, at the listing, at
\* a delete_object, at an upload_file.
S3Faults == {"connect", "list", "delete", "upload"}

\* upload_to_s3() on a bucket and a folder. With the fault "delete" the
\* objects of `deleted_first` are deleted before delete_object raises; with
\* the fault "upload" the files of `failed` are not uploaded.
upload_to_s3(bucket, exists, folder, fault, deleted_first, failed) ==
    LET old_data   == {o \in bucket : should_delete(key_file_name(o.key))}
        deleted    == CASE fault = "list"   -> {}
                        [] fault = "delete" -> deleted_first
                        [] OTHER            -> old_data
        cleaned    == bucket \ deleted
        data_files == {f \in folder : is_data_file(f.name)}
        uploaded   == IF fault = "upload" THEN data_files \ failed ELSE data_files
        keys       == {s3_key(f.name) : f \in uploaded}
    IN  IF fault = "connect"
        THEN [remote |-> bucket, exists |-> exists, uploaded |-> {}, result |-> "False"]
        ELSE IF ~exists
        THEN [remote |-> cleaned, exists |-> TRUE, uploaded |-> {}, result |-> "False"]
        ELSE IF data_files = {}
        THEN [remote |-> cleaned, exists |-> TRUE, uploaded |-> {}, result |-> "False"]
        ELSE [remote   |-> {o \in cleaned : o.key \notin keys}
                           \cup {[key |-> s3_key(f.name), body |-> f.data] : f \in uploaded},
              exists   |-> TRUE,
              uploaded |-> {f.name : f \in uploaded},
              result   |-> IF uploaded = data_files THEN "True" ELSE "False"]

\* The object that an earlier upload left for an account, and an object of
\* the prefix that is no data file.
OldObject(account_name) ==
    [key |-> s3_key(OldArtifact(account_name).name), body |-> OldArtifact(account_name).data]
IndexObject == [key |-> s3_key(StrIndex), body |-> <<>>]

\* The artifact that the last run of the crawler wrote for an account.
NewArtifact(account_name) ==
    [name |-> artifact_name(account_name, strftime_stamp(1)),
     data |-> artifact_data(<<1, 2>>, account_name, strftime_text(1))]

InitS3 ==
    /\ CrawlerIdle
    /\ ResolveIdle
    /\ scroll_step = PageSize - 1
    /\ page = PageProfile
    /\ crawl_result = <<>>
    /\ faults_left = MaxFaults
    /\ fault_kind = "none"
    /\ MainIdle
    /\ SchedIdle
    /\ wall_clock = 2
    /\ last_save = <<>>
    /\ saves_done = 0
    /\ remote \in SUBSET {OldObject(StrTesla), OldObject(StrReuters), IndexObject}
    /\ folder_exists \in BOOLEAN
    /\ files \in IF folder_exists
                THEN SUBSET {NewArtifact(StrTesla), NewArtifact(StrReuters)}
                ELSE {{}}
    /\ s3_result = "none"
    /\ s3_before = {}
    /\ s3_uploaded = {}
    /\ s3_calls = 0

\* One call of upload_to_s3.
S3Upload ==
    /\ s3_calls < MaxUploads
    /\ s3_calls' = s3_calls + 1
    /\ \E fault \in FaultChoices(S3Faults) :
       \E deleted_first \in SUBSET {o \in remote : should_delete(key_file_name(o.key))},
          failed \in SUBSET files :
          /\ fault = "delete"
             <=> deleted_first # {o \in remote : should_delete(key_file_name(o.key))}
          /\ fault = "upload" <=> failed # {}
          /\ Cardinality(failed) <= 1
          /\ Injected(fault)
          /\ LET call == upload_to_s3(remote, folder_exists, files, fault, deleted_first, failed)
             IN  /\ remote' = call.remote
                 /\ folder_exists' = call.exists
                 /\ s3_uploaded' = call.uploaded
                 /\ s3_result' = call.result
    /\ s3_before' = remote
    /\ UNCHANGED <<feedVars, argVars, localVars, historyVars, crawl_result, resolveVars,
                   extractVars, storeVars, mainVars, schedVars>>

\* The crawler runs between two uploads and leaves a new artifact.
S3LocalSave ==
    /\ s3_calls > 0
    /\ saves_done < 1
    /\ folder_exists
    /\ \E account_name \in {StrTesla, StrReuters} :
          /\ files' = save_tweets_to_json(files, <<1>>, account_name, wall_clock, {})
          /\ last_save' = [account |-> account_name, tweets |-> <<1>>, before |-> files,
                           filename |-> artifact_name(account_name,
                                                      strftime_stamp(wall_clock))]
    /\ saves_done' = saves_done + 1
    /\ UNCHANGED <<wall_clock, feedVars, argVars, localVars, historyVars, crawlVars,
                   resolveVars, extractVars, mainVars, schedVars, s3Vars>>

NextS3 == S3Upload \/ S3LocalSave

SpecS3 == InitS3 /\ [][NextS3]_vars

----------------------------------------------------------------------------
(* Vocabulary of the properties.                                           *)

Range(seq) == {seq[k] : k \in DOMAIN seq}

\* The instant the session compares a raw item with: the resolution of its
\* datetime attribute, or of its label when it has none (0: unresolvable).
ResolvedTimeOf(e) ==
    parse_tweet_time_to_timestamp(IF e.datetime # <<>> THEN e.datetime ELSE e.label, now)

Cutoff == now - days_back * SecondsPerDay

HasResolvedTime(e)  == ResolvedTimeOf(e) > 0
InWindowOrPinned(e) == e.pinned \/ ResolvedTimeOf(e) >= Cutoff
IsSeen(e)           == hash(e.html) \in processed_tweet_ids

\* The permalinks of the accepted records.
AcceptedUrls == {tweets_data[k].url : k \in DOMAIN tweets_data}

\* The last page of the feed has been rendered and read.
FeedFullyRendered ==
    tweet_elements # <<>> /\ tweet_elements[Len(tweet_elements)] = feed[Len(feed)]

\* The candidate of the next for-loop iteration, when there is one.
AtCandidate == pc = "for" /\ pos <= Len(tweet_elements)
Candidate   == tweet_elements[pos]

----------------------------------------------------------------------------
(* C1 as stated: in a bounded run over a feed whose items all have         *)
(* resolved times and that was rendered to its end, the returned sequence  *)
(* holds exactly the items of the feed at or after the cutoff, plus every  *)
(* pinned item, wherever it stands in the feed.                            *)
C1_ExactWindowSet ==
    (/\ pc = "returned" /\ days_back > 0
     /\ \A e \in Range(feed) : HasResolvedTime(e)
     /\ FeedFullyRendered)
    => AcceptedUrls = {e.html : e \in {x \in Range(feed) : InWindowOrPinned(x)}}

(* C1 amended: in a bounded run over a feed whose items all have resolved  *)
(* times, the returned sequence holds exactly those items processed before *)
(* the session ended that are at or after the cutoff or pinned; the items  *)
(* rendered after the old item that ends the session are not collected.    *)
C1_WindowSetOfProcessed ==
    (/\ pc = "returned" /\ days_back > 0
     /\ \A e \in Range(feed) : HasResolvedTime(e))
    => AcceptedUrls = {e.html : e \in {x \in Range(feed) : IsSeen(x) /\ InWindowOrPinned(x)}}

\* A bounded session over a fully resolved feed has returned some records
\* and has turned down an item older than the cutoff and one exactly at it.
C1_Witness ==
    /\ pc = "returned" /\ days_back > 0
    /\ \A e \in Range(feed) : HasResolvedTime(e)
    /\ tweets_data # <<>>
    /\ \E e \in Range(feed) : IsSeen(e) /\ ~InWindowOrPinned(e)

(* C2: the k-th accepted record carries index k, so indices start at 1 and *)
(* increase by one, whatever was rejected or skipped in between.           *)
C2_IndexIsPosition ==
    \A k \in DOMAIN tweets_data : tweets_data[k].index = k

\* A record was accepted after an earlier candidate had been turned down: its
\* place in the feed is beyond its index.
C2_Witness ==
    \E k \in DOMAIN tweets_data : tweets_data[k].url > k /\ k >= 2

(* C3: a raw item whose markup was already observed in the session is      *)
(* skipped, leaving the accepted list as it is, and no two accepted        *)
(* records come from the same fingerprint.                                 *)
C3_DedupSkips ==
    /\ [][(AtCandidate /\ IsSeen(Candidate)) => tweets_data' = tweets_data]_vars
    /\ [](\A j, k \in DOMAIN tweets_data :
              hash(tweets_data[j].url) = hash(tweets_data[k].url) => j = k)

\* The item just passed over had been accepted in an earlier round.
C3_Witness ==
    /\ pc = "for" /\ pos > 1
    /\ hash(tweet_elements[pos - 1].html) \in ids_at_round_start
    /\ tweet_elements[pos - 1].html \in AcceptedUrls

\* The accepted list grows by exactly one record, made from the raw item c.
Appended(c) ==
    /\ Len(tweets_data') = Len(tweets_data) + 1
    /\ SubSeq(tweets_data', 1, Len(tweets_data)) = tweets_data
    /\ tweets_data'[Len(tweets_data')].url = c.html
    /\ tweets_data'[Len(tweets_data')].is_pinned = c.pinned

(* C5: in bounded mode a new, non-pinned candidate whose resolved time is  *)
(* before the cutoff is never appended; with 10 or more records accepted   *)
(* the session returns at once with the list as it is, with fewer it goes  *)
(* on to the next candidate.                                               *)
C5_OldCandidate ==
    [][(/\ AtCandidate /\ days_back > 0
        /\ ~IsSeen(Candidate) /\ ~Candidate.pinned
        /\ HasResolvedTime(Candidate) /\ ResolvedTimeOf(Candidate) < Cutoff)
       => /\ tweets_data' = tweets_data
          /\ Len(tweets_data) >= 10 => pc' = "returned"
          /\ Len(tweets_data) < 10 => (pc' = "for" /\ pos' = pos + 1)]_vars

\* The session was ended by an old candidate met with 10 records accepted.
C5_Witness ==
    /\ pc = "returned" /\ pos <= Len(tweet_elements)
    /\ ~tweet_elements[pos].pinned
    /\ HasResolvedTime(tweet_elements[pos]) /\ ResolvedTimeOf(tweet_elements[pos]) < Cutoff
    /\ Len(tweets_data) = 10

(* C6: in bounded mode a new, non-pinned candidate without a resolvable    *)
(* time is accepted exactly when fewer than 5 records are accepted; of a   *)
(* feed of such items the first 5 are accepted and no later one.           *)
C6_UndatedCandidate ==
    /\ [][(/\ AtCandidate /\ days_back > 0
           /\ ~IsSeen(Candidate) /\ ~Candidate.pinned
           /\ ~HasResolvedTime(Candidate))
          => /\ pc' = "for"
             /\ IF Len(tweets_data) < 5 THEN Appended(Candidate)
                ELSE tweets_data' = tweets_data]_vars
    /\ []((days_back > 0 /\ \A e \in Range(feed) : ~e.pinned /\ ~HasResolvedTime(e))
          => Len(tweets_data) = Min(5, Cardinality(processed_tweet_ids)))

\* Of a feed of undated items, 5 are accepted and a 6th has been turned down.
C6_Witness ==
    /\ days_back > 0
    /\ \A e \in Range(feed) : ~e.pinned /\ ~HasResolvedTime(e)
    /\ Len(tweets_data) = 5
    /\ Cardinality(processed_tweet_ids) >= 6

(* C7: a candidate detected as pinned is accepted when its fingerprint is  *)
(* new, whatever its time and the accepted count, and skipped when its     *)
(* fingerprint was seen; it never ends the session.                        *)
C7_PinnedCandidate ==
    [][(AtCandidate /\ Candidate.pinned)
       => /\ pc' = "for"
          /\ IF IsSeen(Candidate) THEN tweets_data' = tweets_data
             ELSE Appended(Candidate)]_vars

\* A pinned item older than the cutoff was accepted after 10 other records,
\* and has since been rendered again and passed over.
C7_Witness ==
    /\ days_back > 0
    /\ Len(tweets_data) >= 11
    /\ tweets_data[11].is_pinned /\ tweets_data[11].date = StrOld
    /\ pc = "for" /\ pos > 1
    /\ tweet_elements[pos - 1].pinned
    /\ hash(tweet_elements[pos - 1].html) \in ids_at_round_start

(* C8: without a time limit (days_back <= 0) every candidate with a new    *)
(* fingerprint is accepted whatever its time, no candidate ends the        *)
(* session, and the session ends only by the item limit, the round limit   *)
(* or stagnation.                                                          *)
C8_Unbounded ==
    /\ [][(AtCandidate /\ days_back <= 0)
          => /\ pc' = "for"
             /\ IF IsSeen(Candidate) THEN tweets_data' = tweets_data
                ELSE Appended(Candidate)]_vars
    /\ []((pc = "returned" /\ days_back <= 0)
          => \/ Len(tweets_data) >= max_tweets
             \/ scroll_attempts >= RoundLimit
             \/ no_new_tweets_count >= 5)

\* Without a time limit, an old non-pinned item was accepted as 12th record.
C8_Witness ==
    /\ days_back <= 0
    /\ Len(tweets_data) >= 12
    /\ tweets_data[12].date = StrOld /\ ~tweets_data[12].is_pinned

(* C9: when 5 consecutive rounds have each observed no unseen fingerprint, *)
(* the loop has returned by stagnation, and with the accepted list that    *)
(* existed before those rounds.                                            *)
C9_StagnationEnds ==
    stagnant_streak >= 5
    => (/\ pc = "returned" /\ reason = "STAGNATION"
        /\ stagnant_streak = 5 /\ tweets_data = streak_base)

\* The loop has returned after 5 rounds without a new fingerprint, keeping
\* the records collected before them.
C9_Witness ==
    /\ stagnant_streak = 5 /\ pc = "returned"
    /\ tweets_data # <<>>
    /\ top > 0

----------------------------------------------------------------------------
(* Reference readings of time strings, from the rules of the normaliser.   *)

\* An integer followed by one unit letter.
IsRelativeExpr(s) ==
    /\ Len(s) >= 2
    /\ IsDigits(SubSeq(s, 1, Len(s) - 1))
    /\ s[Len(s)] \in {"s", "m", "h", "d", "w"}

UnitSeconds(u) ==
    CASE u = "s" -> 1 [] u = "m" -> 60 [] u = "h" -> 3600
      [] u = "d" -> 86400 [] u = "w" -> 604800

RelativeSeconds(s) == DecVal(SubSeq(s, 1, Len(s) - 1)) * UnitSeconds(s[Len(s)])

\* An ISO-8601 date and time with a Z suffix or an explicit offset.
IsIsoInstant(s) ==
    /\ \/ (Len(s) = 20 /\ s[20] = "Z")
       \/ (Len(s) = 25 /\ s[20] \in {"+", "-"})
    /\ s[11] = "T"
    /\ fromisoformat_timestamp(Replace(s, "Z", <<"+", "0", "0", ":", "0", "0">>)).ok

IsoInstant(s) == fromisoformat_timestamp(Replace(s, "Z", <<"+", "0", "0", ":", "0", "0">>)).val

(* C4: the resolution of an integer n followed by a unit token is          *)
(* now - n * unit-seconds ("6h": now - 21600, "2d": now - 172800,          *)
(* "3w": now - 1814400).                                                   *)
C4_RelativeOffset ==
    (r_pc = "ret" /\ IsRelativeExpr(r_time_str))
    => r_result = r_now - RelativeSeconds(r_time_str)

\* The malformed inputs: empty, words, letters without digits, and strings of
\* ISO shape that do not parse.
MalformedInputs ==
    {<<>>, <<"b", "o", "g", "u", "s">>, <<"T", "Z">>, StrBogus, StrBadMonth,
     <<"\\", "d", " ", "h">>}

(* C11: the resolution is total: for every input, however malformed, the   *)
(* call returns an instant or 0 (absent) and no exception leaves it; the   *)
(* malformed inputs give 0.                                                *)
C11_ResolveTotal ==
    r_pc = "ret"
    => /\ ~r_raised
       /\ r_result >= 0
       /\ r_time_str \in MalformedInputs => r_result = 0

\* A call has returned absent although an exception was raised inside it.
C11_Witness ==
    /\ r_pc = "ret" /\ ~r_raised /\ r_result = 0
    /\ ~parse_try_body(r_time_str, r_now).ok

\* The page shows the login wall.
IndicatesLogin == page \in {PageLoginTitle, PageLoginUrl}

(* C12: partial results are never discarded: when the feed source fails    *)
(* during a session (find_elements or the scroll raises), the caller of    *)
(* the session still receives the records accepted so far.                 *)
C12_PartialResultsKept ==
    pc = "done" /\ fault_kind = "source" => crawl_result = tweets_data

(* C13: cancellation from outside takes effect at the top of a round only, *)
(* never in the middle of one, and the records accepted so far are handed  *)
(* back.                                                                   *)
C13_CancelBetweenRounds ==
    [][pc' = "killed" => pc = "while" /\ crawl_result' = tweets_data]_vars

(* C14: an exception raised while one raw item is processed, at the        *)
(* fingerprinting, the extraction, the time resolution or the cutoff       *)
(* evaluation, does not leave the iteration: the round goes on with the    *)
(* next item and the accepted list is as it was before the failed item.    *)
C14_ItemFailureContained ==
    [][faults_left' < faults_left /\ fault_kind' \in {"stale", "log_reject"}
       => pc' = "for" /\ pos' = pos + 1 /\ tweets_data' = tweets_data]_vars

\* An item has failed with records accepted and the round going on.
C14_Witness ==
    /\ fault_kind \in {"stale", "log_reject"}
    /\ pc = "for" /\ pos <= Len(tweet_elements)
    /\ tweets_data # <<>>

(* C15: when the page shows that authentication is required (login in the  *)
(* title or in the address), the session is given up before any item is    *)
(* fingerprinted or extracted, and the result is empty.                    *)
C15_AuthAborts ==
    IndicatesLogin
    => /\ pc \in {"crawl", "done"}
       /\ processed_tweet_ids = {} /\ tweets_data = <<>>
       /\ pc = "done" => crawl_result = <<>> /\ reason = "AUTH_REQUIRED"

\* The session was given up at the login wall.
C15_Witness == IndicatesLogin /\ pc = "done" /\ crawl_result = <<>>

(* C16: the loop always terminates, whatever the feed returns: it returns  *)
(* at the round boundary where the accepted count has reached max_tweets   *)
(* or the round count has reached the round limit, when the stagnation     *)
(* count reaches 5, or when the window is satisfied; and every end is a    *)
(* normal return of the accepted list.                                     *)
C16_Terminates ==
    /\ <>(pc = "returned")
    /\ [](pc \in {"while", "for", "returned"})
    /\ [](pc = "returned"
           => reason \in {"ITEM_LIMIT", "ROUND_LIMIT", "STAGNATION", "WINDOW_SATISFIED"})
    /\ [](no_new_tweets_count >= StagnationLimit => pc = "returned")
    /\ [][(pc = "while"
            /\ (Len(tweets_data) >= max_tweets \/ scroll_attempts >= RoundLimit))
           => (pc' = "returned" /\ tweets_data' = tweets_data)]_vars

\* The loop has returned at the round limit after rounds that each showed a
\* new item.
C16_Witness ==
    /\ pc = "returned" /\ reason = "ROUND_LIMIT"
    /\ scroll_step = 1
    /\ Cardinality(processed_tweet_ids) = PageSize + RoundLimit - 1

C19_StagnationCount ==
    /\ [](no_new_tweets_count = stagnant_streak)
    /\ [][(pc = "for" /\ pos > Len(tweet_elements) /\ pc' # "for")
           => no_new_tweets_count' = IF processed_tweet_ids = ids_at_round_start
                                     THEN no_new_tweets_count + 1 ELSE 0]_vars

\* On a feed without usable times, a round has ended that showed new items
\* when the bootstrap quota was already used up, so that all of them were
\* rejected, and the counter is 0 although an earlier round had stalled.
C19_Witness ==
    /\ \A e \in Range(feed) : ~HasResolvedTime(e) /\ ~e.pinned
    /\ pc = "while" /\ no_new_tweets_count = 0
    /\ Len(tweets_data) = BootstrapThreshold
    /\ Cardinality(ids_at_round_start) >= BootstrapThreshold
    /\ processed_tweet_ids # ids_at_round_start
    /\ top < scroll_attempts * (PageSize - 1)

TimeStrategiesFail(el) ==
    /\ ~el.time_elem.ok \/ ~el.time_elem.val.text.ok
    /\ \/ ~el.status_labels.ok
       \/ \A k \in DOMAIN el.status_labels.val : ~label_accepted(el.status_labels.val[k])

(* C17: extract_tweet_data returns a record whichever lookups fail; a      *)
(* field whose lookup answers is extracted whatever happens to the other   *)
(* fields, and a field whose every strategy fails is left at its zero      *)
(* value: the empty string for text, time, author and url, the empty       *)
(* mapping for engagement, false for pinned.                               *)
C17_SoftFailPerField ==
    x_pc = "ret"
    => /\ DOMAIN x_record = {"index", "text", "time", "date", "author", "url",
                             "engagement", "is_pinned"}
       /\ x_element.text_elem.ok => x_record.text = Strip(x_element.text_elem.val)
       /\ x_element.author.ok => x_record.author = Strip(x_element.author.val)
       /\ x_element.url.ok => x_record.url = x_element.url.val
       /\ (x_element.time_elem.ok /\ x_element.time_elem.val.text.ok)
          => x_record.time = x_element.time_elem.val.text.val
       /\ (x_element.stats.ok /\ Len(x_element.stats.val) >= 3)
          => Cardinality(x_record.engagement) = 3
       /\ (~x_element.text_elem.ok /\ ~x_element.whole_text.ok) => x_record.text = <<>>
       /\ TimeStrategiesFail(x_element) => x_record.time = <<>>
       /\ ~x_element.author.ok => x_record.author = <<>>
       /\ ~x_element.url.ok => x_record.url = <<>>
       /\ ~x_element.stats.ok => x_record.engagement = {}
       /\ (\A k \in 1..3 : ~x_element.pinned_probes[k]) => ~x_record.is_pinned

(* C21: the set of seen fingerprints only grows during a session: no step  *)
(* of the loop removes one; and an item whose fingerprint was computed for  *)
(* the first time has it in the set after its iteration, whether the item   *)
(* was accepted, rejected by the cutoff policy, or its processing raised    *)
(* after the fingerprint was taken.                                         *)
C21_SeenOnlyGrows ==
    /\ [][pc' # "killed" => processed_tweet_ids \subseteq processed_tweet_ids']_vars
    /\ [][(AtCandidate /\ (pos' = pos + 1 \/ pc' = "returned")
            /\ ~(faults_left' < faults_left /\ fault_kind' = "stale"))
           => hash(Candidate.html) \in processed_tweet_ids']_vars

\* An item has just failed after its fingerprint was taken and is in the
\* set, together with accepted items and with a rejected one.
C21_Witness ==
    /\ fault_kind = "log_reject" /\ faults_left = 0
    /\ pc = "for" /\ pos > 1 /\ pos <= Len(tweet_elements) + 1
    /\ IsSeen(tweet_elements[pos - 1])
    /\ tweets_data # <<>>
    /\ Cardinality(processed_tweet_ids) >= Len(tweets_data) + 2

\* The positions of the accepted list that hold an item whose iteration
\* raised, in a given list and set of failed ids.
FailedAccepted(tweets, failed) == {k \in DOMAIN tweets : hash(tweets[k].url) \in failed}

\* An item whose iteration raised is shown again: it is skipped.
FailedSkipped ==
    [][(AtCandidate /\ hash(Candidate.html) \in failed_ids
        /\ (pos' = pos + 1 \/ pc' = "returned"))
       => (/\ tweets_data' = tweets_data
           /\ processed_tweet_ids' = processed_tweet_ids
           /\ pc' = "for" /\ pos' = pos + 1)]_vars

(* C28 as stated: an item whose processing raised after its fingerprint    *)
(* was recorded keeps its fingerprint in the set, is skipped whenever a     *)
(* later round shows it, and never appears in the accepted list.            *)
C28_FailedNeverAccepted ==
    /\ [](failed_ids \subseteq processed_tweet_ids)
    /\ FailedSkipped
    /\ [](FailedAccepted(tweets_data, failed_ids) = {})

(* C28 amended: an item whose processing raised after its fingerprint was   *)
(* recorded keeps its fingerprint in the set and is skipped whenever a      *)
(* later round shows it; it is absent from the accepted list when the       *)
(* exception was raised before the append, and it is in the list, once,     *)
(* when the exception was raised by the console output after the append.    *)
C28_FailedNotReprocessed ==
    /\ [](failed_ids \subseteq processed_tweet_ids)
    /\ FailedSkipped
    /\ [][(failed_ids' # failed_ids /\ pc' # "killed")
           => (/\ AtCandidate
               /\ failed_ids' = failed_ids \cup {hash(Candidate.html)}
               /\ tweets_data' =
                     IF fault_kind' = "log_found"
                     THEN Append(tweets_data,
                                 extract_tweet_data(Candidate, Len(tweets_data) + 1))
                     ELSE tweets_data)]_vars
    /\ [][(failed_ids' = failed_ids)
           => FailedAccepted(tweets_data', failed_ids')
              = FailedAccepted(tweets_data, failed_ids)]_vars

\* An item whose iteration raised has been shown again by a later round and
\* passed over.
C28_Witness ==
    /\ pc = "for" /\ pos > 1 /\ pos <= Len(tweet_elements) + 1
    /\ hash(tweet_elements[pos - 1].html) \in failed_ids \cap ids_at_round_start

\* The artifacts of an account in a folder, told by the account they record.
ArtifactsOf(folder, account_name) == {f \in folder : f.data.account = account_name}

(* C22: after save_tweets_to_json(tweets, account_name) has returned, the   *)
(* folder holds exactly one artifact of that account, the one just written  *)
(* under <account_name>_<timestamp>.json, and the artifacts of every other  *)
(* account, one whose name starts with "<account_name>_" included, are as   *)
(* they were before the call.                                               *)
C22_OneArtifactOthersKept ==
    last_save # <<>>
    => /\ Cardinality(ArtifactsOf(files, last_save.account)) = 1
       /\ \A f \in ArtifactsOf(files, last_save.account) : f.name = last_save.filename
       /\ \A f \in last_save.before : f.data.account # last_save.account => f \in files

(* C23: every account that main has crawled has exactly one artifact in    *)
(* the folder, written by this run, holding the records its session        *)
(* returned, the account, the time of collection and a tweet_count equal    *)
(* to the number of records; also when the session returned no record. No   *)
(* crawled account is left with the artifact of an earlier run.             *)
C23_ArtifactPerSession ==
    (main_pc \in {"loop", "done"} /\ fault_kind = "none")
    => \A k \in DOMAIN sessions :
          \E f \in files :
             /\ ArtifactsOf(files, TWITTER_ACCOUNTS[k]) = {f}
             /\ f # OldArtifact(TWITTER_ACCOUNTS[k])
             /\ f.data.tweets = sessions[k]
             /\ f.data.tweet_count = Len(sessions[k])
             /\ f.data.crawl_time = strftime_text(k)

(* C24: on no date are more than daily_limit (24) crawler processes        *)
(* launched; every launch is counted when its process has ended, whatever   *)
(* the exit code; and the count restarts at 0 when run_crawler is first     *)
(* called on a new date.                                                    *)
C24_LaunchLimit ==
    /\ [](\A d \in Dates : launches[d] <= DailyLimit)
    /\ [][(sched_pc = "crawling" /\ sched_pc' \in {"on", "uploading"})
           => daily_run_count' = daily_run_count + 1]_vars
    /\ [][(sched_pc = "on" /\ last_run_date' # last_run_date)
           => daily_run_count' = 0]_vars

\* The date written in the statistics file.
StatsDate == strptime_date(stats_file.last_run_date).val

\* The count c is the number of successful runs of date d, whether a run
\* that passes midnight is reckoned to the date of its launch or of its end.
CountsRunsOf(c, d) == c = finished_ok[d] \/ c = launched_ok[d]

(* C25: in the statistics file daily_run_count is the number of successful *)
(* runs made on the date written as last_run_date, after any sequence of    *)
(* runs, date changes, saves (the save on interrupt included) and restarts; *)
(* and a scheduler that is started takes up, for the current date, a count  *)
(* of runs of that date only.                                               *)
C25_StatsCountOfDate ==
    /\ [](stats_file # <<>>
           => /\ strptime_date(stats_file.last_run_date).ok
              /\ CountsRunsOf(stats_file.daily_run_count, StatsDate))
    /\ [][(sched_pc = "off" /\ sched_pc' = "on" /\ last_run_date' = date_of(hour_now))
           => CountsRunsOf(daily_run_count', date_of(hour_now))]_vars

(* C27: in run_crawler the upload to S3 is started only when the crawler   *)
(* process has ended with exit code 0, never after a failed run or a run    *)
(* skipped by the daily limit; and when the upload returns, failed or not,  *)
(* run_crawler returns True and the count and the saved statistics are as   *)
(* they were when the upload started.                                       *)
C27_UploadAfterSuccess ==
    /\ [][(sched_pc' = "uploading" /\ sched_pc # "uploading")
           => (sched_pc = "crawling" /\ return_code' = 0)]_vars
    /\ [](sched_pc = "uploading" => return_code = 0)
    /\ [][(sched_pc = "on" /\ sched_pc' = "on" /\ last_return' = "False")
           => upload_ok' = upload_ok]_vars
    /\ [][(sched_pc = "uploading" /\ sched_pc' = "on")
           => (/\ last_return' = "True"
               /\ daily_run_count' = daily_run_count
               /\ stats_file' = stats_file)]_vars

\* A run has returned True after a failed upload, with its run counted.
C27_Witness ==
    /\ sched_pc = "on" /\ return_code = 0
    /\ ~upload_ok /\ last_return = "True"
    /\ daily_run_count = launched_ok[last_run_date] /\ daily_run_count > 0
    /\ stats_file # <<>> /\ stats_file.daily_run_count = daily_run_count

\* The data artifacts among the objects of a bucket.
DataObjects(bucket) == {o \in bucket : should_delete(key_file_name(o.key))}

(* C26: when upload_to_s3 returns False, the data artifacts that were in   *)
(* the bucket before the call are all still there, unchanged; and a call    *)
(* that removed a data artifact from the bucket has uploaded files.         *)
C26_FailureKeepsRemote ==
    /\ s3_result = "False" => DataObjects(s3_before) \subseteq remote
    /\ (s3_result # "none" /\ ~(DataObjects(s3_before) \subseteq remote))
       => s3_uploaded # {}

(* C10: the resolution of an ISO-8601 timestamp with a Z suffix or an      *)
(* explicit offset, positive or negative, is exactly that instant,         *)
(* whatever the current time.                                              *)
C10_IsoExact ==
    (r_pc = "ret" /\ IsIsoInstant(r_time_str))
    => r_result = IsoInstant(r_time_str)

====
